---- MODULE Spec2Model ----
(***************************************************************************)
(* zoltan: byte-pattern search (core/src/patterns.rs), symbol resolution   *)
(* (core/src/symbols.rs, core/src/eval.rs, core/src/exe.rs) and the        *)
(* low_pc written for each symbol (core/src/dwarf.rs).                     *)
(*                                                                         *)
(* Machine integers are scaled: a byte has ByteBits bits, a u64/usize/i64  *)
(* is 8 such bytes and an i32 is 4 such bytes, so every wrap, sign and     *)
(* overflow case of the code exists in the model with small numbers.       *)
(* Indices are 0-based as in the code; a TLA+ sequence s holds the code's  *)
(* s[i] at s[i + 1].                                                       *)
(***************************************************************************)
EXTENDS Integers, Sequences, FiniteSets

VARIABLES
    overflow_checks, \* build profile: TRUE = arithmetic overflow panics, FALSE = it wraps
    specs,           \* Vec<FunctionSpec>; multi_search reads only .pattern
    text,            \* ExecutableData.text, the haystack
    exe,             \* ExecutableData: text_offset, image_base, rdata_offset, rdata
    pc,              \* position of the running call
    items,           \* multi_search: offset of the literal run of each pattern
    hits,            \* multi_search: hits the automaton's iterator has still to yield
    matches,         \* multi_search: Vec<Match> pushed so far
    match_map,       \* resolve_in_exe: pattern index -> Vec<rva>
    syms,            \* resolve_in_exe: Vec<FunctionSymbol>
    errs,            \* resolve_in_exe: Vec<SymbolError>
    result,          \* resolve_in_exe: what the call returned
    low_pcs,         \* write_symbol_file: DW_AT_low_pc of each subprogram DIE
    call,            \* a call of one function: its name and its arguments
    ret,             \* what that call returned
    writer,          \* DwarfWriter: unit (the DIEs), types, cache
    cfg_windows,     \* build target: TRUE = cfg(windows), FALSE = cfg(unix)
    resolver         \* clang front end: the TypeResolver of run

vars == <<overflow_checks, specs, text, exe, pc, items, hits, matches,
          match_map, syms, errs, result, low_pcs, call, ret,
                   writer, cfg_windows, resolver>>

(***************************************************************************)
(* Bounds of the model.                                                    *)
(***************************************************************************)
ByteBits == 2
MaxText == 5
MaxPatLen == 3
MaxItems == 3
MaxPats == 2
MaxNth == 2
MaxOffset == 1
MaxExpr == 4
MaxPatStr == 4
MaxComments == 4
MaxTypeDepth == 2
MaxDies == 5

\* the layers of the scope of template parameters up to which the resolver is called
MaxLayers == 2

(***************************************************************************)
(* Machine integers.                                                       *)
(***************************************************************************)
U64_BYTES == 8
I32_BYTES == 4
POINTER_SIZE == 8

ByteMod == 2 ^ ByteBits
ByteMax == ByteMod - 1
WordMod == ByteMod ^ U64_BYTES
I32Mod == ByteMod ^ I32_BYTES

None == [some |-> FALSE]
Some(v) == [some |-> TRUE, v |-> v]

Panic == [panic |-> TRUE]
Val(v) == [panic |-> FALSE, v |-> v]

\* `x as u64` of a signed value
AsU64(x) == ((x % WordMod) + WordMod) % WordMod

\* u64/usize `a + b`
UAdd(oc, a, b) ==
    IF a + b >= WordMod
    THEN IF oc THEN Panic ELSE Val((a + b) % WordMod)
    ELSE Val(a + b)

\* u64/usize `a - b`
USub(oc, a, b) ==
    IF a < b
    THEN IF oc THEN Panic ELSE Val(a - b + WordMod)
    ELSE Val(a - b)

\* u64 `a * b`
UMul(oc, a, b) ==
    IF a * b >= WordMod
    THEN IF oc THEN Panic ELSE Val((a * b) % WordMod)
    ELSE Val(a * b)

RECURSIVE SumSeq(_)
SumSeq(s) == IF s = <<>> THEN 0 ELSE Head(s) + SumSeq(Tail(s))

\* slice[a..b) of a sequence, 0-based, for 0 <= a <= b <= Len(s)
Slice(s, a, b) == SubSeq(s, a + 1, b)

(***************************************************************************)
(* core/src/patterns.rs                                                    *)
(***************************************************************************)
Byte(b) == [t |-> "Byte", b |-> b, name |-> ""]
Any == [t |-> "Any", b |-> 0, name |-> ""]
Group(name) == [t |-> "Group", b |-> 0, name |-> name]

\* PatItem::size with the Group arm lost
PatItem_size_one(it) == 1

PatItem_size(it) == IF it.t = "Group" THEN I32_BYTES ELSE 1

\* Pattern::new: size is the sum of the item sizes
Pattern_size(parts) == SumSeq([k \in 1..Len(parts) |-> PatItem_size(parts[k])])

\* Pattern::groups with the offset behind each group instead of at it
groups_behind(parts) ==
    LET pos(k) == SumSeq([j \in 1..k |-> PatItem_size(parts[j])])
        idx == {k \in 1..Len(parts) : parts[k].t = "Group"}
        RECURSIVE Collect(_)
        Collect(k) ==
            IF k > Len(parts) THEN <<>>
            ELSE IF k \in idx
                 THEN <<[name |-> parts[k].name, typ |-> "Rel", offset |-> pos(k)]>>
                        \o Collect(k + 1)
                 ELSE Collect(k + 1)
    IN Collect(1)

\* Pattern::groups: (name, type, byte offset) of each Group item, in order; Rel is
\* the one VarType
groups(parts) ==
    LET pos(k) == SumSeq([j \in 1..(k - 1) |-> PatItem_size(parts[j])])
        idx == {k \in 1..Len(parts) : parts[k].t = "Group"}
        RECURSIVE Collect(_)
        Collect(k) ==
            IF k > Len(parts) THEN <<>>
            ELSE IF k \in idx
                 THEN <<[name |-> parts[k].name, typ |-> "Rel", offset |-> pos(k)]>>
                        \o Collect(k + 1)
                 ELSE Collect(k + 1)
    IN Collect(1)

\* Pattern::does_match: walks the items over an iterator of the bytes
RECURSIVE does_match_from(_, _, _, _)
does_match_from(parts, bytes, k, at) ==
    IF k > Len(parts) THEN TRUE
    ELSE LET pat == parts[k] IN
         CASE pat.t = "Byte" ->
                 IF at < Len(bytes) /\ bytes[at + 1] = pat.b
                 THEN does_match_from(parts, bytes, k + 1, at + 1)
                 ELSE FALSE
           [] pat.t = "Group" ->
                 IF at + PatItem_size(pat) <= Len(bytes)
                 THEN does_match_from(parts, bytes, k + 1, at + PatItem_size(pat))
                 ELSE FALSE
           [] pat.t = "Any" ->
                 does_match_from(parts, bytes, k + 1,
                                 IF at < Len(bytes) THEN at + 1 ELSE at)

does_match(parts, bytes) == does_match_from(parts, bytes, 1, 0)

\* slice::group_by(|a, b| a is Byte && b is Byte): the runs, as (start, len)
RECURSIVE group_by_from(_, _, _)
group_by_from(parts, start, k) ==
    \* start: 0-based index where the current run began; k: 0-based index of its last item
    IF start >= Len(parts) THEN <<>>
    ELSE IF k + 1 < Len(parts) /\ parts[k + 1].t = "Byte" /\ parts[k + 2].t = "Byte"
         THEN group_by_from(parts, start, k + 1)
         ELSE <<[start |-> start, len |-> k + 1 - start]>>
              \o group_by_from(parts, k + 1, k + 1)

group_by(parts) == group_by_from(parts, 0, 0)

\* Iterator::max_by_key(len): the last of the runs of maximal length
RECURSIVE max_by_key_from(_, _, _)
max_by_key_from(runs, k, best) ==
    IF k > Len(runs) THEN best
    ELSE max_by_key_from(runs, k + 1,
                         IF runs[k].len >= best.len THEN runs[k] ELSE best)

\* Pattern::longest_byte_sequence; dflt marks the `&[]` of unwrap_or_default
longest_byte_sequence(parts) ==
    LET runs == group_by(parts) IN
    IF runs = <<>>
    THEN [start |-> 0, len |-> 0, dflt |-> TRUE]
    ELSE LET m == max_by_key_from(runs, 2, runs[1])
         IN [start |-> m.start, len |-> m.len, dflt |-> FALSE]

\* the items of a run
RunItems(parts, run) == Slice(parts, run.start, run.start + run.len)

\* seq.iter().filter_map(PatItem::as_byte): the literal handed to the automaton
RunBytes(parts, run) ==
    LET its == RunItems(parts, run)
        RECURSIVE Keep(_)
        Keep(k) == IF k > Len(its) THEN <<>>
                   ELSE IF its[k].t = "Byte" THEN <<its[k].b>> \o Keep(k + 1)
                   ELSE Keep(k + 1)
    IN Keep(1)

\* offset_from(pat.parts(), seq): pointer difference. A run returned by group_by
\* points into parts. The `&[]` default does not: its address is the build's
\* choice, so the index is 0 (both pointers dangling at the alignment) or an
\* index past the empty parts, for which parts[0..start] panics.
offset_from(parts, run, same_address) ==
    IF ~run.dflt THEN Val(run.start)
    ELSE IF same_address THEN Val(0) ELSE Panic

\* lines 125-131 for one pattern: the byte offset of its run and the literal
PatternEntry(parts, same_address) ==
    LET seq == longest_byte_sequence(parts)
        start == offset_from(parts, seq, same_address)
    IN IF start.panic THEN Panic
       ELSE Val([offset |-> Pattern_size(Slice(parts, 0, start.v)),
                 sequence |-> RunBytes(parts, seq)])

\* the loop of lines 125-131 over all patterns
BuildItems(pats, same_address) ==
    LET es == [k \in 1..Len(pats) |-> PatternEntry(pats[k], same_address)] IN
    IF \E k \in 1..Len(pats) : es[k].panic THEN Panic
    ELSE Val([k \in 1..Len(pats) |-> es[k].v])

\* does literal lit occur in haystack at 0-based position p
OccursAt(lit, haystack, p) ==
    /\ p + Len(lit) <= Len(haystack)
    /\ \A j \in 1..Len(lit) : haystack[p + j] = lit[j]

\* an iterator that yields the hits by decreasing end position
find_overlapping_iter_backwards(seqs, haystack) ==
    LET Occurs(k, p) ==
            /\ p + Len(seqs[k]) <= Len(haystack)
            /\ \A j \in 1..Len(seqs[k]) : haystack[p + j] = seqs[k][j]
        RECURSIVE From(_, _)
        From(p, k) ==
            IF p < 0 THEN <<>>
            ELSE IF k > Len(seqs) THEN From(p - 1, 1)
            ELSE IF Occurs(k, p)
                 THEN <<[pattern |-> k - 1, start |-> p]>> \o From(p, k + 1)
                 ELSE From(p, k + 1)
    IN From(Len(haystack), 1)

\* AhoCorasick::find_overlapping_iter: every occurrence of every literal (the
\* empty literal occurs at every position 0..=len), by increasing end position;
\* at one end position the longer literal first, equal literals by pattern index.
RECURSIVE HitsAtEnd(_, _, _, _, _)
HitsAtEnd(seqs, haystack, end, len, k) ==
    \* hits ending at `end` of literals of length <= len, from pattern k on
    IF len < 0 THEN <<>>
    ELSE IF k > Len(seqs) THEN HitsAtEnd(seqs, haystack, end, len - 1, 1)
    ELSE IF Len(seqs[k]) = len /\ end >= len /\ OccursAt(seqs[k], haystack, end - len)
         THEN <<[pattern |-> k - 1, start |-> end - len]>>
              \o HitsAtEnd(seqs, haystack, end, len, k + 1)
         ELSE HitsAtEnd(seqs, haystack, end, len, k + 1)

RECURSIVE find_overlapping_from(_, _, _)
find_overlapping_from(seqs, haystack, end) ==
    IF end > Len(haystack) THEN <<>>
    ELSE HitsAtEnd(seqs, haystack, end, Len(haystack), 1)
         \o find_overlapping_from(seqs, haystack, end + 1)

find_overlapping_iter(seqs, haystack) == find_overlapping_from(seqs, haystack, 0)

\* evaluates e once and hands its value to F
Bind(e, F(_)) == CHOOSE y \in {F(x) : x \in {e}} : TRUE

\* the loop body with the start of the run, not of the pattern, as the rva
HitMatch_run_start(oc, pats, its, haystack, mat) ==
    LET parts == pats[mat.pattern + 1]
        offset == its[mat.pattern + 1].offset
    IN Bind(USub(oc, mat.start, offset), LAMBDA start :
         IF start.panic THEN Panic
         ELSE Bind(UAdd(oc, start.v, Pattern_size(parts)), LAMBDA end :
                IF end.panic THEN Panic
                ELSE IF start.v > end.v \/ end.v > Len(haystack) THEN Panic
                ELSE IF does_match(parts, Slice(haystack, start.v, end.v))
                     THEN Val(Some([pattern |-> mat.pattern, rva |-> mat.start]))
                     ELSE Val(None)))

\* lines 137-147 for one hit: Panic, Val(Some(Match)) or Val(None)
HitMatch(oc, pats, its, haystack, mat) ==
    LET parts == pats[mat.pattern + 1]
        offset == its[mat.pattern + 1].offset
    IN Bind(USub(oc, mat.start, offset), LAMBDA start :
         IF start.panic THEN Panic
         ELSE Bind(UAdd(oc, start.v, Pattern_size(parts)), LAMBDA end :
                IF end.panic THEN Panic
                ELSE IF start.v > end.v \/ end.v > Len(haystack) THEN Panic
                ELSE IF does_match(parts, Slice(haystack, start.v, end.v))
                     THEN Val(Some([pattern |-> mat.pattern, rva |-> start.v]))
                     ELSE Val(None)))

\* the body of the loop of lines 136-148 for one hit: Panic, or the matches after it
ScanHit(oc, pats, its, haystack, found, mat) ==
    Bind(HitMatch(oc, pats, its, haystack, mat), LAMBDA r :
      IF r.panic THEN Panic
      ELSE IF r.v.some THEN Val(Append(found, r.v.v)) ELSE Val(found))

\* the loop of lines 136-148 over all hits: it panics at the first hit that panics
ScanAll(oc, pats, its, haystack, all) ==
    Bind([j \in 1..Len(all) |-> HitMatch(oc, pats, its, haystack, all[j])], LAMBDA rs :
      IF \E j \in 1..Len(all) : rs[j].panic THEN Panic
      ELSE LET kept == SelectSeq(rs, LAMBDA r : r.v.some)
           IN Val([j \in 1..Len(kept) |-> kept[j].v.v]))

\* multi_search as one call: Panic, or Val(Vec<Match>)
multi_search(oc, pats, haystack, same_address) ==
    Bind(BuildItems(pats, same_address), LAMBDA its :
      IF its.panic THEN Panic
      ELSE Bind(find_overlapping_iter([k \in 1..Len(pats) |-> its.v[k].sequence],
                                      haystack),
                LAMBDA all : ScanAll(oc, pats, its.v, haystack, all)))

(***************************************************************************)
(* core/src/exe.rs                                                         *)
(***************************************************************************)
Ok(v) == [ok |-> TRUE, v |-> v]
Err(e) == [ok |-> FALSE, e |-> e]

InvalidAccess(addr) == [kind |-> "InvalidAccess", addr |-> addr, name |-> ""]
UnresolvedName(name) == [kind |-> "UnresolvedName", addr |-> 0, name |-> name]

\* `x as i64` of an unsigned value
AsI64(x) == IF x >= WordMod \div 2 THEN x - WordMod ELSE x

\* i64 `a + b`
IAdd(oc, a, b) ==
    IF a + b >= WordMod \div 2 \/ a + b < -(WordMod \div 2)
    THEN IF oc THEN Panic ELSE Val(AsI64(AsU64(a + b)))
    ELSE Val(a + b)

\* the unsigned value of little-endian bytes
RECURSIVE from_le_bytes(_)
from_le_bytes(bytes) ==
    IF bytes = <<>> THEN 0 ELSE Head(bytes) + ByteMod * from_le_bytes(Tail(bytes))

\* i32::from_ne_bytes on the little-endian host
i32_from_ne_bytes(bytes) ==
    LET u == from_le_bytes(bytes) IN IF u >= I32Mod \div 2 THEN u - I32Mod ELSE u

\* slice.get(a..b) for a range whose end was computed as a + n
SliceGet(s, a, b) == IF a <= b /\ b <= Len(s) THEN Some(Slice(s, a, b)) ELSE None

\* resolve_rel_text that leaves out the size of the displacement
resolve_rel_text_short(oc, data, addr) ==
    Bind(SliceGet(data.text, addr, addr + I32_BYTES), LAMBDA bytes :
      IF ~bytes.some THEN Val(Err(InvalidAccess(addr)))
      ELSE Val(Ok(AsU64(data.text_offset + addr + i32_from_ne_bytes(bytes.v)))))

\* ExecutableData::resolve_rel_text: Panic, Val(Err(InvalidAccess)) or Val(Ok(abs))
resolve_rel_text(oc, data, addr) ==
    Bind(UAdd(oc, addr, I32_BYTES), LAMBDA end :
      IF end.panic THEN Panic
      ELSE Bind(SliceGet(data.text, addr, end.v), LAMBDA bytes :
        IF ~bytes.some THEN Val(Err(InvalidAccess(addr)))
        ELSE Bind(IAdd(oc, AsI64(data.text_offset), AsI64(addr)), LAMBDA s1 :
          IF s1.panic THEN Panic
          ELSE Bind(IAdd(oc, s1.v, I32_BYTES), LAMBDA s2 :
            IF s2.panic THEN Panic
            ELSE Bind(IAdd(oc, s2.v, i32_from_ne_bytes(bytes.v)), LAMBDA abs :
              IF abs.panic THEN Panic
              ELSE Val(Ok(AsU64(abs.v))))))))

\* ExecutableData::resolve_rel_rdata: Panic, Val(Err(InvalidAccess)) or Val(Ok(u64))
resolve_rel_rdata(oc, data, addr) ==
    Bind(USub(oc, addr, data.rdata_offset), LAMBDA a :
      IF a.panic THEN Panic
      ELSE Bind(UAdd(oc, a.v, U64_BYTES), LAMBDA end :
        IF end.panic THEN Panic
        ELSE Bind(SliceGet(data.rdata, a.v, end.v), LAMBDA bytes :
          IF ~bytes.some THEN Val(Err(InvalidAccess(a.v)))
          ELSE Val(Ok(from_le_bytes(bytes.v))))))

\* ExecutableData::image_base
image_base(data) == data.image_base

\* ExecutableData::text_offset_from_base: .text address relative to the image base
text_offset_from_base(data) == data.text_offset - data.image_base

(***************************************************************************)
(* core/src/eval.rs                                                        *)
(***************************************************************************)
Expr_Ident(name) == [op |-> "Ident", name |-> name]
Expr_Int(n) == [op |-> "Int", n |-> n]
Expr_Deref(e) == [op |-> "Deref", e |-> e]
Expr_Add(l, r) == [op |-> "Add", l |-> l, r |-> r]
Expr_Sub(l, r) == [op |-> "Sub", l |-> l, r |-> r]

\* EvalContext::new: binds every group, in order; a later insert of a name replaces
\* the earlier one. Panic, Val(Err(e)) or Val(Ok(vars)), vars a sequence of bindings.
RECURSIVE EvalContext_bind(_, _, _, _, _)
EvalContext_bind(oc, gs, data, rva, bound) ==
    IF gs = <<>> THEN Val(Ok(bound))
    ELSE Bind(UAdd(oc, Head(gs).offset, rva), LAMBDA at :
      IF at.panic THEN Panic
      ELSE Bind(resolve_rel_text(oc, data, at.v), LAMBDA abs :
        IF abs.panic THEN Panic
        ELSE IF ~abs.v.ok THEN Val(Err(abs.v.e))
        ELSE Bind(Append(SelectSeq(bound, LAMBDA b : b.name # Head(gs).name),
                         [name |-> Head(gs).name, abs |-> abs.v.v]),
                  LAMBDA next : EvalContext_bind(oc, Tail(gs), data, rva, next))))

EvalContext_new(oc, pattern, data, rva) ==
    Bind(groups(pattern), LAMBDA gs : EvalContext_bind(oc, gs, data, rva, <<>>))

\* EvalContext::get_var
get_var(ctx, name) ==
    Bind(SelectSeq(ctx, LAMBDA b : b.name = name), LAMBDA hit :
      IF hit = <<>> THEN Err(UnresolvedName(name)) ELSE Ok(hit[1].abs))

\* Expr::eval: Panic, Val(Err(e)) or Val(Ok(u64))
RECURSIVE eval(_, _, _, _)
eval(oc, expr, ctx, data) ==
    CASE expr.op = "Deref" ->
            Bind(eval(oc, expr.e, ctx, data), LAMBDA a :
              IF a.panic THEN Panic
              ELSE IF ~a.v.ok THEN a
              ELSE resolve_rel_rdata(oc, data, a.v.v))
      [] expr.op \in {"Add", "Sub"} ->
            Bind(eval(oc, expr.l, ctx, data), LAMBDA l :
              IF l.panic THEN Panic
              ELSE IF ~l.v.ok THEN l
              ELSE Bind(eval(oc, expr.r, ctx, data), LAMBDA r :
                IF r.panic THEN Panic
                ELSE IF ~r.v.ok THEN r
                ELSE Bind(IF expr.op = "Add" THEN UAdd(oc, l.v.v, r.v.v)
                                             ELSE USub(oc, l.v.v, r.v.v),
                          LAMBDA x : IF x.panic THEN Panic ELSE Val(Ok(x.v)))))
      [] expr.op = "Ident" -> Val(get_var(ctx, expr.name))
      [] expr.op = "Int" ->
            Bind(UMul(oc, expr.n, POINTER_SIZE), LAMBDA x :
              IF x.panic THEN Panic ELSE Val(Ok(x.v)))

(***************************************************************************)
(* core/src/symbols.rs                                                     *)
(***************************************************************************)
MoreThanOneMatch(name, count) == [kind |-> "MoreThanOneMatch", name |-> name, count |-> count]
NoMatches(name) == [kind |-> "NoMatches", name |-> name, count |-> 0]
NotEnoughMatches(name, count) == [kind |-> "NotEnoughMatches", name |-> name, count |-> count]
CountMismatch(name, count) == [kind |-> "CountMismatch", name |-> name, count |-> count]

FunctionSymbol(name, rva) == [name |-> name, rva |-> rva]

unwrap_or(opt, d) == IF opt.some THEN opt.v ELSE d

\* resolve_symbol: Panic, Val(Err(e)) or Val(Ok(FunctionSymbol))
resolve_symbol(oc, spec, data, rva) ==
    IF spec.eval.some
    THEN Bind(EvalContext_new(oc, spec.pattern, data, rva), LAMBDA ctx :
           IF ctx.panic THEN Panic
           ELSE IF ~ctx.v.ok THEN ctx
           ELSE Bind(eval(oc, spec.eval.v, ctx.v.v, data), LAMBDA v :
             IF v.panic THEN Panic
             ELSE IF ~v.v.ok THEN v
             ELSE Bind(USub(oc, v.v.v, image_base(data)), LAMBDA res :
               IF res.panic THEN Panic
               ELSE Val(Ok(FunctionSymbol(spec.name, res.v))))))
    ELSE Bind(IAdd(oc, AsI64(rva), -unwrap_or(spec.offset, 0)), LAMBDA d :
           IF d.panic THEN Panic
           ELSE Bind(UAdd(oc, AsU64(d.v), text_offset_from_base(data)), LAMBDA res :
             IF res.panic THEN Panic
             ELSE Val(Ok(FunctionSymbol(spec.name, res.v)))))

\* match_map that is not keyed by the pattern index
BuildMatchMap_merged(ms, n) == [k \in 1..n |-> [j \in 1..Len(ms) |-> ms[j].rva]]

\* lines 17-20: the rvas of each pattern index, in the order multi_search gave them
BuildMatchMap(ms, n) ==
    [k \in 1..n |->
        LET mine == SelectSeq(ms, LAMBDA m : m.pattern = k - 1)
        IN [j \in 1..Len(mine) |-> mine[j].rva]]

\* the match on the bucket without the arms for several matches
MatchArm_first(fun, addrs) ==
    IF Len(addrs) = 0 THEN Err(NoMatches(fun.name)) ELSE Ok(addrs[1])

\* lines 25-38, the arm the match on the bucket takes: the rva to resolve, or the
\* SymbolError to push
MatchArm(fun, addrs) ==
    CASE Len(addrs) = 0 -> Err(NoMatches(fun.name))
      [] Len(addrs) = 1 -> Ok(addrs[1])
      [] OTHER ->
           IF fun.nth_entry_of.some
           THEN IF fun.nth_entry_of.v[1] < Len(addrs)
                THEN IF fun.nth_entry_of.v[2] = Len(addrs)
                     THEN Ok(addrs[fun.nth_entry_of.v[1] + 1])
                     ELSE Err(CountMismatch(fun.name, Len(addrs)))
                ELSE Err(NotEnoughMatches(fun.name, Len(addrs)))
           ELSE Err(MoreThanOneMatch(fun.name, Len(addrs)))

\* the loop body with the error of resolve_symbol pushed to errs instead of returned
ResolveOne_collect(oc, fun, data, addrs) ==
    Bind(MatchArm(fun, addrs), LAMBDA arm :
      IF ~arm.ok THEN Val(Ok([sym |-> None, err |-> Some(arm.e)]))
      ELSE Bind(resolve_symbol(oc, fun, data, arm.v), LAMBDA r :
        IF r.panic THEN Panic
        ELSE IF ~r.v.ok THEN Val(Ok([sym |-> None, err |-> Some(r.v.e)]))
        ELSE Val(Ok([sym |-> Some(r.v.v), err |-> None]))))

\* lines 25-39, the loop body for one spec and its bucket:
\* Panic, Val(Err(e)) (the `?` return) or Val(Ok([sym, err])) with one of the two set
ResolveOne(oc, fun, data, addrs) ==
    Bind(MatchArm(fun, addrs), LAMBDA arm :
      IF ~arm.ok THEN Val(Ok([sym |-> None, err |-> Some(arm.e)]))
      ELSE Bind(resolve_symbol(oc, fun, data, arm.v), LAMBDA r :
        IF r.panic THEN Panic
        ELSE IF ~r.v.ok THEN r
        ELSE Val(Ok([sym |-> Some(r.v.v), err |-> None]))))

\* lines 22-41, the loop over the specs: it ends at the first spec whose resolution
\* panics or returns an error, else every spec pushed one symbol or one error
ResolveLoop(oc, fs, data, map) ==
    Bind([k \in 1..Len(fs) |-> ResolveOne(oc, fs[k], data, map[k])], LAMBDA rs :
      LET stop(k) == rs[k].panic \/ ~rs[k].v.ok
          stops == {k \in 1..Len(fs) : stop(k)}
      IN IF stops # {}
         THEN rs[CHOOSE k \in stops : \A j \in stops : k <= j]
         ELSE LET got == SelectSeq(rs, LAMBDA r : r.v.v.sym.some)
                  bad == SelectSeq(rs, LAMBDA r : r.v.v.err.some)
              IN Val(Ok([syms |-> [j \in 1..Len(got) |-> got[j].v.v.sym.v],
                         errs |-> [j \in 1..Len(bad) |-> bad[j].v.v.err.v]])))

PatternsOf(fs) == [k \in 1..Len(fs) |-> fs[k].pattern]

\* resolve_in_exe: Panic, Val(Err(e)) or Val(Ok([syms, errs]))
resolve_in_exe(oc, fs, data, same_address) ==
    Bind(multi_search(oc, PatternsOf(fs), data.text, same_address), LAMBDA ms :
    IF ms.panic THEN Panic
    ELSE ResolveLoop(oc, fs, data, BuildMatchMap(ms.v, Len(fs))))

(***************************************************************************)
(* core/src/dwarf.rs                                                       *)
(***************************************************************************)
\* define_function_symbol, line 352: image_base + fun.rva()
low_pc(oc, base, fun) == UAdd(oc, base, fun.rva)

(***************************************************************************)
(* Inputs.                                                                 *)
(***************************************************************************)
SeqsUpTo(S, n) == UNION {[1..k -> S] : k \in 0..n}

PatBytes == {0, ByteMax}
HayBytes == {0, ByteMax}
PatItems == {Byte(b) : b \in PatBytes} \cup {Any, Group("f")}
Texts == SeqsUpTo(HayBytes, MaxText)

\* the haystacks of a search: the shorter ones also hold a byte no pattern names
SearchTexts == Texts \cup SeqsUpTo(HayBytes \cup {1}, MaxText - 1)

\* lists of exactly n patterns over the items S with at most budget items in all
RECURSIVE ListsOf(_, _, _)
ListsOf(S, n, budget) ==
    IF n = 0 THEN {<<>>}
    ELSE UNION {{<<p>> \o rest : rest \in ListsOf(S, n - 1, budget - Len(p))} :
                p \in SeqsUpTo(S, budget)}

PatternLists(S) == UNION {ListsOf(S, n, MaxItems) : n \in 1..MaxPats}

FunctionSpec(name, pattern, offset, ev, nth) ==
    [name |-> name, pattern |-> pattern, offset |-> offset, eval |-> ev,
     nth_entry_of |-> nth]

\* the specs of a search: only the patterns matter; lists of several patterns
\* are of Byte and Any items
SearchSpecs ==
    {[k \in 1..Len(l) |-> FunctionSpec(k - 1, l[k], None, None, None)] :
        l \in ListsOf(PatItems, 1, MaxItems)
              \cup (PatternLists(PatItems \ {Group("f")})
                    \ ListsOf(PatItems \ {Group("f")}, 1, MaxItems))}

\* .rdata: U64_BYTES + 1 bytes, so two addresses can be dereferenced
RData == [k \in 1..(U64_BYTES + 1) |-> IF k % 2 = 1 THEN ByteMax ELSE 0]

\* image base b, .text at b + t, .rdata behind the longest .text
Exe(b, t) == [image_base |-> b, text_offset |-> b + t,
              rdata_offset |-> b + t + MaxText + MaxPatLen + 1, rdata |-> RData]

ResolvePatItems == {Byte(0), Group("f")}
ResolvePatterns == SeqsUpTo(ResolvePatItems, MaxPatLen) \ {<<>>}
Nths == {None} \cup {Some(<<n, t>>) : n \in {0, MaxNth}, t \in {MaxNth, MaxNth + 1}}
ClassEvals == {None, Some(Expr_Ident("f")), Some(Expr_Ident("g")),
               Some(Expr_Deref(Expr_Ident("f")))}

\* the options of a spec in a list of several
ListOptions == {<<None, None>>, <<Some(Expr_Ident("f")), None>>,
                <<Some(Expr_Ident("g")), None>>, <<None, Some(<<MaxNth - 1, MaxNth>>)>>}

\* one spec with every option, or several specs with fewer options
ResolveSpecs ==
    {<<FunctionSpec(0, p, None, e, n)>> :
        p \in ResolvePatterns, e \in ClassEvals, n \in Nths}
    \cup
    UNION {{[k \in 1..Len(l) |-> FunctionSpec(k - 1, l[k], None, o[k][1], o[k][2])] :
              o \in [1..Len(l) -> ListOptions]} :
           l \in {m \in PatternLists(ResolvePatItems) :
                     Len(m) >= 2 /\ \A k \in 1..Len(m) : m[k] # <<>>}}

Offsets == {None} \cup {Some(o) : o \in {-MaxOffset, MaxOffset}}
AddrEvals == {Some(Expr_Ident("f")), Some(Expr_Deref(Expr_Ident("f"))),
              Some(Expr_Sub(Expr_Ident("f"), Expr_Int(1))),
              Some(Expr_Add(Expr_Ident("f"), Expr_Int(1)))}

\* one spec resolved by offset or by eval
AddrSpecs ==
    {<<FunctionSpec(0, p, o, None, None)>> : p \in ResolvePatterns, o \in Offsets}
    \cup {<<FunctionSpec(0, p, None, e, None)>> : p \in ResolvePatterns, e \in AddrEvals}

\* haystacks long enough for a group behind a run of two bytes, at two offsets
AddrTexts == SeqsUpTo(HayBytes, MaxText + MaxPatLen - 1)

\* image base 0 or not, .text at the image base or behind it
AddrExes == {Exe(0, ByteMod), Exe(ByteMod, 0), Exe(ByteMod, ByteMod)}

(***************************************************************************)
(* State machine.                                                          *)
(***************************************************************************)
ExecutableData ==
    [text |-> text, rdata |-> exe.rdata, rdata_offset |-> exe.rdata_offset,
     text_offset |-> exe.text_offset, image_base |-> exe.image_base]

\* the addresses the `&[]` of an empty pattern can have
SameAddress(fs) == IF \E k \in 1..Len(fs) : fs[k].pattern = <<>> THEN BOOLEAN ELSE {TRUE}

InitCommon ==
    /\ overflow_checks \in BOOLEAN
    /\ pc = "ready"
    /\ items = <<>>
    /\ hits = <<>>
    /\ matches = <<>>
    /\ match_map = <<>>
    /\ syms = <<>>
    /\ errs = <<>>
    /\ result = None
    /\ low_pcs = <<>>
    /\ call = None
    /\ ret = None
    /\ writer = None
    /\ cfg_windows = FALSE
    /\ resolver = None

\* a call of multi_search
Init ==
    /\ InitCommon
    /\ text \in SearchTexts
    /\ specs \in SearchSpecs
    /\ exe = Exe(0, 0)

\* a call of resolve_in_exe, specs of every kind of match count
InitResolve ==
    /\ InitCommon
    /\ text \in Texts
    /\ specs \in ResolveSpecs
    /\ exe = Exe(0, ByteMod)

\* a call of resolve_in_exe, one spec, every kind of address
InitAddr ==
    /\ InitCommon
    /\ text \in AddrTexts
    /\ specs \in AddrSpecs
    /\ exe \in AddrExes

\* multi_search, lines 122-134: the runs, their offsets and the automaton
Search_Build ==
    /\ pc = "ready"
    /\ \E same_address \in SameAddress(specs) :
         LET its == BuildItems(PatternsOf(specs), same_address) IN
         IF its.panic
         THEN /\ pc' = "search_panic"
              /\ UNCHANGED <<items, hits>>
         ELSE /\ pc' = "scan"
              /\ items' = its.v
              /\ hits' = find_overlapping_iter(
                             [k \in 1..Len(specs) |-> its.v[k].sequence], text)
    /\ UNCHANGED <<overflow_checks, specs, text, exe, matches, match_map, syms,
                   errs, result, low_pcs, call, ret,
                   writer, cfg_windows, resolver>>

\* multi_search, lines 136-148: one hit of the iterator
Search_Scan ==
    /\ pc = "scan"
    /\ hits # <<>>
    /\ LET r == ScanHit(overflow_checks, PatternsOf(specs), items, text, matches,
                        Head(hits))
       IN IF r.panic
          THEN /\ pc' = "search_panic"
               /\ UNCHANGED <<hits, matches>>
          ELSE /\ pc' = "scan"
               /\ hits' = Tail(hits)
               /\ matches' = r.v
    /\ UNCHANGED <<overflow_checks, specs, text, exe, items, match_map, syms,
                   errs, result, low_pcs, call, ret,
                   writer, cfg_windows, resolver>>

\* multi_search, line 149: the iterator is exhausted
Search_Return ==
    /\ pc = "scan"
    /\ hits = <<>>
    /\ pc' = "done"
    /\ UNCHANGED <<overflow_checks, specs, text, exe, items, hits, matches,
                   match_map, syms, errs, result, low_pcs, call, ret,
                   writer, cfg_windows, resolver>>

\* resolve_in_exe, the whole call
ResolveInExe ==
    /\ pc = "ready"
    /\ \E same_address \in SameAddress(specs) :
       \E ms \in {multi_search(overflow_checks, PatternsOf(specs), text, same_address)} :
         IF ms.panic
         THEN /\ pc' = "search_panic"
              /\ UNCHANGED <<matches, match_map, syms, errs, result>>
         ELSE \E map \in {BuildMatchMap(ms.v, Len(specs))} :
              \E r \in {ResolveLoop(overflow_checks, specs, ExecutableData, map)} :
                 /\ matches' = ms.v
                 /\ match_map' = map
                 /\ IF r.panic
                    THEN /\ pc' = "resolve_panic"
                         /\ UNCHANGED <<syms, errs, result>>
                    ELSE /\ pc' = "returned"
                         /\ result' = Some(r.v)
                         /\ syms' = IF r.v.ok THEN r.v.v.syms ELSE <<>>
                         /\ errs' = IF r.v.ok THEN r.v.v.errs ELSE <<>>
    /\ UNCHANGED <<overflow_checks, specs, text, exe, items, hits, low_pcs, call, ret,
                   writer, cfg_windows, resolver>>

\* write_symbol_file, lines 36-38: define_function_symbol for every symbol
WriteSymbolFile ==
    /\ pc = "returned"
    /\ result.v.ok
    /\ LET pcs == [k \in 1..Len(syms) |-> low_pc(overflow_checks, exe.image_base, syms[k])]
       IN IF \E k \in 1..Len(syms) : pcs[k].panic
          THEN /\ pc' = "write_panic"
               /\ UNCHANGED low_pcs
          ELSE /\ pc' = "written"
               /\ low_pcs' = [k \in 1..Len(syms) |-> pcs[k].v]
    /\ UNCHANGED <<overflow_checks, specs, text, exe, items, hits, matches,
                   match_map, syms, errs, result, call, ret,
                   writer, cfg_windows, resolver>>

Next == Search_Build \/ Search_Scan \/ Search_Return

NextResolve == ResolveInExe \/ WriteSymbolFile

Spec == Init /\ [][Next]_vars

SpecResolve == InitResolve /\ [][NextResolve]_vars

SpecAddr == InitAddr /\ [][NextResolve]_vars

(***************************************************************************)
(* eval.rs: the grammar of expressions.  A string is a sequence of         *)
(* characters; a rule applied at a position fails or matches up to a       *)
(* position with a value.  precedence! is precedence climbing: an operand  *)
(* is the first alternative without `@` that matches, in the order of      *)
(* declaration, then the operators with `@` are applied in a loop.         *)
(***************************************************************************)
Failed == [ok |-> FALSE]
Matched(pos, v) == [ok |-> TRUE, pos |-> pos, v |-> v]

\* the character at pos, "" past the end
At(str, pos) == IF pos >= 1 /\ pos <= Len(str) THEN str[pos] ELSE ""

Blanks == {" ", "\t"}
DigitChars == <<"0", "1", "2", "3", "4", "5", "6", "7", "8", "9">>
Digits == {DigitChars[k] : k \in 1..Len(DigitChars)}
UpperHex == {"A", "B", "C", "D", "E", "F"}
LowerHex == {"a", "b", "c", "d", "e", "f"}
Lower == LowerHex \cup {"g", "h", "i", "j", "k", "l", "m", "n", "o", "p", "q", "r",
                        "s", "t", "u", "v", "w", "x", "y", "z"}
Upper == UpperHex \cup {"G", "H", "I", "J", "K", "L", "M", "N", "O", "P", "Q", "R",
                        "S", "T", "U", "V", "W", "X", "Y", "Z"}

\* [set]* at pos: the position after the longest run of characters of the set
RECURSIVE many(_, _, _)
many(str, pos, set) ==
    IF At(str, pos) \in set THEN many(str, pos + 1, set) ELSE pos

\* rule _()
ws(str, pos) == many(str, pos, Blanks)

DigitVal(c) == (CHOOSE k \in 1..Len(DigitChars) : DigitChars[k] = c) - 1

\* str::parse::<u64> of a string of digits: None on overflow
RECURSIVE parse_u64(_, _)
parse_u64(ds, acc) ==
    IF ds = <<>> THEN Some(acc)
    ELSE IF acc * 10 + DigitVal(Head(ds)) >= WordMod THEN None
    ELSE parse_u64(Tail(ds), acc * 10 + DigitVal(Head(ds)))

\* rule number()
number(str, pos) ==
    \* the digits end at e
    Bind(many(str, pos, Digits), LAMBDA e :
      IF e = pos THEN Failed
      ELSE Bind(parse_u64(SubSeq(str, pos, e - 1), 0), LAMBDA n :
             IF n.some THEN Matched(e, n.v) ELSE Failed))

IdentChars == Lower \cup Upper \cup {"_"}

RECURSIVE expr_rule(_, _, _)
RECURSIVE operand(_, _)
RECURSIVE operators(_, _, _, _)

\* the alternatives without `@`, in the order of declaration
operand(str, pos) ==
    Bind(IF At(str, pos) = "*" THEN expr_rule(str, pos + 1, 0) ELSE Failed, LAMBDA d :
      IF d.ok THEN Matched(d.pos, Expr_Deref(d.v))
      ELSE Bind(number(str, pos), LAMBDA n :
        IF n.ok THEN Matched(n.pos, Expr_Int(n.v))
        ELSE Bind(IF At(str, pos) = "(" THEN expr_rule(str, pos + 1, 0) ELSE Failed, LAMBDA e :
          IF e.ok /\ At(str, e.pos) = ")" THEN Matched(e.pos + 1, e.v)
          ELSE Bind(many(str, pos, IdentChars), LAMBDA k :
            IF k > pos THEN Matched(k, Expr_Ident(SubSeq(str, pos, k - 1)))
            ELSE Failed))))

\* the loop over the operators `x:(@) _ "+" _ y:@` and `x:(@) _ "-" _ y:@` of
\* level 0: the right operand is parsed at level 1
operators(str, pos, min_prec, x) ==
    IF min_prec > 0 THEN Matched(pos, x)
    ELSE
      Bind(ws(str, pos), LAMBDA p :
        Bind(IF At(str, p) = "+" THEN expr_rule(str, ws(str, p + 1), 1) ELSE Failed, LAMBDA y :
          IF y.ok THEN operators(str, y.pos, min_prec, Expr_Add(x, y.v))
          ELSE Bind(IF At(str, p) = "-" THEN expr_rule(str, ws(str, p + 1), 1) ELSE Failed, LAMBDA z :
            IF z.ok THEN operators(str, z.pos, min_prec, Expr_Sub(x, z.v))
            ELSE Matched(pos, x))))

\* rule expr() entered with the least level min_prec
expr_rule(str, pos, min_prec) ==
    Bind(operand(str, pos), LAMBDA x :
      IF x.ok THEN operators(str, x.pos, min_prec, x.v) ELSE Failed)

ParseError == [kind |-> "ParseError"]

\* Expr::parse: the rule must match the whole string
Expr_parse(str) ==
    Bind(expr_rule(str, 1, 0), LAMBDA r :
      IF r.ok /\ r.pos = Len(str) + 1 THEN Ok(r.v) ELSE Err(ParseError))

(***************************************************************************)
(* patterns.rs: the grammar of patterns.  The bytes a pattern is parsed to *)
(* are the values of the two hex digits, 0..255.                           *)
(***************************************************************************)
HexChars == DigitChars \o <<"A", "B", "C", "D", "E", "F">>

\* the value of an upper-case hex digit
HexVal(c) == (CHOOSE k \in 1..Len(HexChars) : HexChars[k] = c) - 1

\* rule byte(): exactly two of ['0'..='9' | 'A'..='F'], then u8::from_str_radix
byte(str, pos) ==
    IF At(str, pos) \in Digits \cup UpperHex /\ At(str, pos + 1) \in Digits \cup UpperHex
    THEN Matched(pos + 2, HexVal(At(str, pos)) * 16 + HexVal(At(str, pos + 1)))
    ELSE Failed

\* rule any()
any(str, pos) == IF At(str, pos) = "?" THEN Matched(pos + 1, "?") ELSE Failed

\* rule ident()
ident(str, pos) ==
    Bind(many(str, pos, IdentChars), LAMBDA k :
      IF k > pos THEN Matched(k, SubSeq(str, pos, k - 1)) ELSE Failed)

\* rule var_type()
var_type(str, pos) ==
    IF SubSeq(str, pos, pos + 2) = <<"r", "e", "l">> THEN Matched(pos + 3, "Rel") ELSE Failed

\* the third alternative of rule item(): "(" _ id:ident() _ ":" _ typ:var_type() _ ")"
group_item(str, pos) ==
    IF At(str, pos) # "(" THEN Failed
    ELSE Bind(ident(str, ws(str, pos + 1)), LAMBDA id :
      IF ~id.ok THEN Failed
      ELSE Bind(ws(str, id.pos), LAMBDA colon :
        IF At(str, colon) # ":" THEN Failed
        ELSE Bind(var_type(str, ws(str, colon + 1)), LAMBDA typ :
          IF ~typ.ok THEN Failed
          ELSE Bind(ws(str, typ.pos), LAMBDA close :
            IF At(str, close) = ")" THEN Matched(close + 1, Group(id.v)) ELSE Failed))))

\* rule item()
item(str, pos) ==
    Bind(byte(str, pos), LAMBDA n :
      IF n.ok THEN Matched(n.pos, Byte(n.v))
      ELSE IF any(str, pos).ok THEN Matched(pos + 1, Any)
      ELSE group_item(str, pos))

\* item() ** _ after a first item: a separator and an item, as long as both match
RECURSIVE more_items(_, _, _)
more_items(str, pos, acc) ==
    Bind(item(str, ws(str, pos)), LAMBDA it :
      IF it.ok THEN more_items(str, it.pos, Append(acc, it.v)) ELSE Matched(pos, acc))

\* rule pattern()
pattern_rule(str, pos) ==
    Bind(item(str, pos), LAMBDA it :
      IF it.ok THEN more_items(str, it.pos, <<it.v>>) ELSE Matched(pos, <<>>))

\* Pattern::parse: the rule must match the whole string
Pattern_parse(str) ==
    Bind(pattern_rule(str, 1), LAMBDA r :
      IF r.pos = Len(str) + 1 THEN Ok(r.v) ELSE Err(ParseError))

(***************************************************************************)
(* spec.rs: a function spec from the comment lines of a typedef.  The      *)
(* function type is handed through and left out.                           *)
(***************************************************************************)
\* char::is_whitespace on the characters of the lines
White == Blanks \cup {"\n"}

RECURSIVE trim_start(_)
trim_start(str) ==
    IF str # <<>> /\ Head(str) \in White THEN trim_start(Tail(str)) ELSE str

RECURSIVE trim_end(_)
trim_end(str) ==
    IF str # <<>> /\ str[Len(str)] \in White
    THEN trim_end(SubSeq(str, 1, Len(str) - 1)) ELSE str

trim(str) == trim_end(trim_start(str))

strip_prefix(str, prefix) ==
    IF SubSeq(str, 1, Len(prefix)) = prefix
    THEN Some(SubSeq(str, Len(prefix) + 1, Len(str))) ELSE None

\* str::split_once(c): around the first c
split_once(str, c) ==
    IF \E k \in 1..Len(str) : str[k] = c
    THEN Bind(CHOOSE k \in 1..Len(str) : str[k] = c /\ \A j \in 1..(k - 1) : str[j] # c,
              LAMBDA k : Some(<<SubSeq(str, 1, k - 1), SubSeq(str, k + 1, Len(str))>>))
    ELSE None

\* parse_typedef_comment
parse_typedef_comment(line) ==
    Bind(strip_prefix(trim_start(line), <<"/", "/", "/">>), LAMBDA a :
      IF ~a.some THEN None
      ELSE Bind(strip_prefix(trim_start(a.v), <<"@">>), LAMBDA b :
        IF ~b.some THEN None
        ELSE Bind(split_once(b.v, " "), LAMBDA kv :
          IF ~kv.some THEN None
          ELSE Some(<<kv.v[1], trim(kv.v[2])>>))))

\* the digits of an integer as a number no greater than max, None beyond
RECURSIVE parse_digits(_, _, _)
parse_digits(ds, acc, max) ==
    IF ds = <<>> THEN Some(acc)
    ELSE IF Head(ds) \notin Digits \/ acc * 10 + DigitVal(Head(ds)) > max THEN None
    ELSE parse_digits(Tail(ds), acc * 10 + DigitVal(Head(ds)), max)

\* i64::from_str: an optional sign and at least one digit
i64_from_str(str) ==
    IF str = <<>> THEN None
    ELSE IF Head(str) = "-"
    THEN IF Tail(str) = <<>> THEN None
         ELSE Bind(parse_digits(Tail(str), 0, WordMod \div 2), LAMBDA n :
                IF n.some THEN Some(-n.v) ELSE None)
    ELSE IF Head(str) = "+"
    THEN IF Tail(str) = <<>> THEN None ELSE parse_digits(Tail(str), 0, WordMod \div 2 - 1)
    ELSE parse_digits(str, 0, WordMod \div 2 - 1)

\* usize::from_str: an optional `+` and at least one digit
usize_from_str(str) ==
    IF str = <<>> THEN None
    ELSE IF Head(str) = "+"
    THEN IF Tail(str) = <<>> THEN None ELSE parse_digits(Tail(str), 0, WordMod - 1)
    ELSE parse_digits(str, 0, WordMod - 1)

InvalidParam(field) == [kind |-> "InvalidParam", field |-> field]
UnknownParam(key) == [kind |-> "UnknownParam", key |-> key]
MissingPattern == [kind |-> "MissingPattern"]
ParamError_ParseError(field) == [kind |-> "ParseError", field |-> field]
TypedefParamError(name, err) == [kind |-> "TypedefParamError", name |-> name, err |-> err]

\* parse_from_str
parse_from_str(parsed, field) ==
    IF parsed.some THEN Ok(parsed.v) ELSE Err(InvalidParam(field))

\* parse_index_specifier with the two numbers exchanged
parse_index_specifier_swapped(str) ==
    Bind(split_once(str, "/"), LAMBDA nm :
      IF ~nm.some THEN Err(InvalidParam("nth"))
      ELSE Bind(parse_from_str(usize_from_str(trim(nm.v[1])), "nth"), LAMBDA n :
        IF ~n.ok THEN n
        ELSE Bind(parse_from_str(usize_from_str(trim(nm.v[2])), "nth"), LAMBDA max :
          IF ~max.ok THEN max ELSE Ok(<<max.v, n.v>>))))

parse_index_specifier(str) ==
    Bind(split_once(str, "/"), LAMBDA nm :
      IF ~nm.some THEN Err(InvalidParam("nth"))
      ELSE Bind(parse_from_str(usize_from_str(trim(nm.v[1])), "nth"), LAMBDA n :
        IF ~n.ok THEN n
        ELSE Bind(parse_from_str(usize_from_str(trim(nm.v[2])), "nth"), LAMBDA max :
          IF ~max.ok THEN max ELSE Ok(<<n.v, max.v>>))))

\* a HashMap is a set of <<key, value>> with one value for a key
insert(params, key, val) == {p \in params : p[1] # key} \cup {<<key, val>>}
remove(params, key) == {p \in params : p[1] # key}
get(params, key) ==
    IF \E p \in params : p[1] = key
    THEN Some((CHOOSE p \in params : p[1] = key)[2]) ELSE None

\* Option::map(f).transpose() of a Result-valued f
map_transpose(opt, F(_)) ==
    IF ~opt.some THEN Ok(None)
    ELSE Bind(F(opt.v), LAMBDA r : IF r.ok THEN Ok(Some(r.v)) ELSE r)

KeyPattern == <<"p", "a", "t", "t", "e", "r", "n">>
KeyOffset == <<"o", "f", "f", "s", "e", "t">>
KeyEval == <<"e", "v", "a", "l">>
KeyNth == <<"n", "t", "h">>

\* FunctionSpec::from_params; first_key is the key that params.keys().next()
\* yields when keys are left: the HashMap's choice
from_params(name, params, first_key) ==
    Bind(get(params, KeyPattern), LAMBDA pat :
      IF ~pat.some THEN Err(MissingPattern)
      ELSE Bind(Pattern_parse(pat.v), LAMBDA pattern :
        IF ~pattern.ok THEN Err(ParamError_ParseError("pattern"))
        ELSE Bind(map_transpose(get(params, KeyOffset),
                                LAMBDA str : parse_from_str(i64_from_str(str), "offset")),
                  LAMBDA offset :
          IF ~offset.ok THEN offset
          ELSE Bind(map_transpose(get(params, KeyEval), Expr_parse), LAMBDA ev :
            IF ~ev.ok THEN Err(ParamError_ParseError("eval"))
            ELSE Bind(map_transpose(get(params, KeyNth), parse_index_specifier),
                      LAMBDA nth_entry_of :
              IF ~nth_entry_of.ok THEN nth_entry_of
              ELSE IF first_key.some THEN Err(UnknownParam(first_key.v))
              ELSE Ok(FunctionSpec(name, pattern.v, offset.v, ev.v, nth_entry_of.v)))))))

\* the keys left in params after the four removals
KeysLeft(params) ==
    {p[1] : p \in remove(remove(remove(remove(params, KeyPattern), KeyOffset),
                                 KeyEval), KeyNth)}

\* the loop of FunctionSpec::new
RECURSIVE collect_params(_, _)
collect_params(comments, params) ==
    IF comments = <<>> THEN params
    ELSE Bind(parse_typedef_comment(Head(comments)), LAMBDA kv :
           collect_params(Tail(comments),
                          IF kv.some THEN insert(params, kv.v[1], kv.v[2]) ELSE params))

\* FunctionSpec::new: None, Some(Err(e)) or Some(Ok(spec))
FunctionSpec_new(name, params, first_key) ==
    IF params = {} THEN None
    ELSE Bind(from_params(name, params, first_key), LAMBDA spec :
           IF spec.ok THEN Some(spec) ELSE Some(Err(TypedefParamError(name, spec.e))))

(***************************************************************************)
(* types.rs: types and their names.  A name is a sequence of characters.   *)
(***************************************************************************)
Type_Void == [k |-> "Void"]
Type_Bool == [k |-> "Bool"]
Type_Char(signed) == [k |-> "Char", signed |-> signed]
Type_WChar == [k |-> "WChar"]
Type_Short(signed) == [k |-> "Short", signed |-> signed]
Type_Int(signed) == [k |-> "Int", signed |-> signed]
Type_Long(signed) == [k |-> "Long", signed |-> signed]
Type_Float == [k |-> "Float"]
Type_Double == [k |-> "Double"]
Type_Pointer(inner) == [k |-> "Pointer", inner |-> inner]
Type_Reference(inner) == [k |-> "Reference", inner |-> inner]
Type_Array(inner) == [k |-> "Array", inner |-> inner]
Type_FixedArray(inner, size) == [k |-> "FixedArray", inner |-> inner, size |-> size]
Type_Function(fun) == [k |-> "Function", fun |-> fun]
Type_Union(id) == [k |-> "Union", id |-> id]
Type_Struct(id) == [k |-> "Struct", id |-> id]
Type_Enum(id) == [k |-> "Enum", id |-> id]

FunctionType(params, return_type) == [params |-> params, return_type |-> return_type]

NameVoid == <<"v", "o", "i", "d">>
NameBool == <<"b", "o", "o", "l">>
NameChar == <<"c", "h", "a", "r">>
NameSignedChar == <<"s", "i", "g", "n", "e", "d", " ", "c", "h", "a", "r">>
NameWChar == <<"w", "c", "h", "a", "r", "_", "t">>
NameInt16 == <<"i", "n", "t", "1", "6", "_", "t">>
NameUInt16 == <<"u", "i", "n", "t", "1", "6", "_", "t">>
NameInt32 == <<"i", "n", "t", "3", "2", "_", "t">>
NameUInt32 == <<"u", "i", "n", "t", "3", "2", "_", "t">>
NameInt64 == <<"i", "n", "t", "6", "4", "_", "t">>
NameUInt64 == <<"u", "i", "n", "t", "6", "4", "_", "t">>
NameFloat == <<"f", "l", "o", "a", "t">>
NameDouble == <<"d", "o", "u", "b", "l", "e">>

\* usize's Display: the decimal digits
RECURSIVE to_string(_)
to_string(n) ==
    IF n < 10 THEN <<DigitChars[n + 1]>>
    ELSE to_string(n \div 10) \o <<DigitChars[(n % 10) + 1]>>

\* Itertools::format(sep) of names
RECURSIVE join(_, _)
join(strs, sep) ==
    IF strs = <<>> THEN <<>>
    ELSE IF Len(strs) = 1 THEN strs[1]
    ELSE strs[1] \o sep \o join(Tail(strs), sep)

RECURSIVE name_right(_)
RECURSIVE name_left(_)
RECURSIVE Type_name(_)

\* Type::name_right: None or Some(str)
name_right(typ) ==
    CASE typ.k \in {"Pointer", "Reference"} -> name_right(typ.inner)
      [] typ.k = "Array" ->
            Some(unwrap_or(name_right(typ.inner), <<>>) \o <<"[", "]">>)
      [] typ.k = "FixedArray" ->
            Some(unwrap_or(name_right(typ.inner), <<>>)
                   \o <<"[">> \o to_string(typ.size) \o <<"]">>)
      [] typ.k = "Function" ->
            Some(<<"(">>
                   \o join([j \in 1..Len(typ.fun.params) |-> Type_name(typ.fun.params[j])],
                           <<",", " ">>)
                   \o <<")">>)
      [] OTHER -> None

\* Type::name_left
name_left(typ) ==
    CASE typ.k = "Void" -> NameVoid
      [] typ.k = "Bool" -> NameBool
      [] typ.k = "Char" -> IF typ.signed THEN NameChar ELSE NameSignedChar
      [] typ.k = "WChar" -> NameWChar
      [] typ.k = "Short" -> IF typ.signed THEN NameInt16 ELSE NameUInt16
      [] typ.k = "Int" -> IF typ.signed THEN NameInt32 ELSE NameUInt32
      [] typ.k = "Long" -> IF typ.signed THEN NameInt64 ELSE NameUInt64
      [] typ.k = "Float" -> NameFloat
      [] typ.k = "Double" -> NameDouble
      [] typ.k \in {"Union", "Struct", "Enum"} -> typ.id
      [] typ.k = "Pointer" ->
            IF typ.inner.k = "Function"
            THEN name_left(typ.inner) \o <<"(", "*", ")">>
            ELSE name_left(typ.inner) \o <<"*">>
      [] typ.k = "Reference" ->
            IF typ.inner.k = "Function"
            THEN name_left(typ.inner) \o <<"(", "&", ")">>
            ELSE name_left(typ.inner) \o <<"&">>
      [] typ.k \in {"Array", "FixedArray"} -> name_left(typ.inner)
      [] typ.k = "Function" -> Type_name(typ.fun.return_type)

\* Type::name
Type_name(typ) ==
    Bind(name_right(typ), LAMBDA right :
      IF right.some THEN name_left(typ) \o right.v ELSE name_left(typ))

\* the build: overflow checks and target
Build(oc, windows) == [oc |-> oc, windows |-> windows]

\* r is a panic, or F of the value of r
Then(r, F(_)) == Bind(r, LAMBDA x : IF x.panic THEN Panic ELSE F(x.v))

DataMember(name, typ, bit_offset, is_bitfield) ==
    [name |-> name, typ |-> typ, bit_offset |-> bit_offset, is_bitfield |-> is_bitfield]
DataMember_basic(name, typ) == DataMember(name, typ, None, FALSE)
Method(name, typ) == [name |-> name, typ |-> typ]
StructType(name, base, members, virtual_methods, size) ==
    [name |-> name, base |-> base, members |-> members,
     virtual_methods |-> virtual_methods, size |-> size]
UnionType(name, members, size) == [name |-> name, members |-> members, size |-> size]
EnumMember(name, value) == [name |-> name, value |-> value]
EnumType(name, members, size) == [name |-> name, members |-> members, size |-> size]

\* TypeInfo: each map a set of <<id, type>> with one type for an id
TypeInfo(structs, unions, enums) == [structs |-> structs, unions |-> unions, enums |-> enums]

\* Type::size: Panic or Val(Option<usize>)
RECURSIVE Type_size(_, _, _)
Type_size(b, info, typ) ==
    CASE typ.k = "Void" -> Val(Some(0))
      [] typ.k \in {"Bool", "Char"} -> Val(Some(1))
      [] typ.k = "WChar" -> Val(Some(IF b.windows THEN 2 ELSE 4))
      [] typ.k = "Short" -> Val(Some(2))
      [] typ.k \in {"Int", "Float"} -> Val(Some(4))
      [] typ.k \in {"Long", "Double"} -> Val(Some(8))
      [] typ.k \in {"Pointer", "Reference", "Function"} -> Val(Some(POINTER_SIZE))
      [] typ.k = "Array" -> Val(None)
      [] typ.k = "FixedArray" ->
            Then(Type_size(b, info, typ.inner), LAMBDA v :
              IF ~v.some THEN Val(None)
              ELSE Then(UMul(b.oc, v.v, typ.size), LAMBDA n : Val(Some(n))))
      [] typ.k = "Union" ->
            Bind(get(info.unions, typ.id), LAMBDA u : Val(IF u.some THEN u.v.size ELSE None))
      [] typ.k = "Struct" ->
            Bind(get(info.structs, typ.id), LAMBDA st : Val(IF st.some THEN st.v.size ELSE None))
      [] typ.k = "Enum" ->
            Bind(get(info.enums, typ.id), LAMBDA e : Val(IF e.some THEN e.v.size ELSE None))

\* self.base.and_then(|id| types.structs.get(&id))
base_of(struct_, types) ==
    IF struct_.base.some THEN get(types.structs, struct_.base.v) ELSE None

\* StructType::has_virtual_methods
RECURSIVE has_virtual_methods(_, _)
has_virtual_methods(struct_, types) ==
    \/ struct_.virtual_methods # <<>>
    \/ Bind(base_of(struct_, types), LAMBDA base :
         base.some /\ has_virtual_methods(base.v, types))

\* StructType::all_members
RECURSIVE all_members(_, _)
all_members(struct_, types) ==
    Bind(base_of(struct_, types), LAMBDA base :
      IF base.some THEN all_members(base.v, types) \o struct_.members
      ELSE struct_.members)

\* all_virtual_methods with the methods of the struct before those of its base
RECURSIVE all_virtual_methods_own_first(_, _)
all_virtual_methods_own_first(struct_, types) ==
    Bind(base_of(struct_, types), LAMBDA base :
      IF base.some
      THEN struct_.virtual_methods \o all_virtual_methods_own_first(base.v, types)
      ELSE struct_.virtual_methods)

\* StructType::all_virtual_methods
RECURSIVE all_virtual_methods(_, _)
all_virtual_methods(struct_, types) ==
    Bind(base_of(struct_, types), LAMBDA base :
      IF base.some THEN all_virtual_methods(base.v, types) \o struct_.virtual_methods
      ELSE struct_.virtual_methods)

\* FunctionSymbol::new
FunctionSymbol_new(name, function_type, rva) ==
    [name |-> name, function_type |-> function_type, rva |-> rva]

(***************************************************************************)
(* dwarf.rs: the writer of the DIEs.  A unit is the sequence of its DIEs,  *)
(* the id of a DIE its index, 0 the root; a DIE has a tag, a parent and    *)
(* attributes.  A function of the writer takes the writer and returns      *)
(* Panic or Val of the writer after it and the id it returns.              *)
(***************************************************************************)
MAX_ALIGN == 8

Attributes ==
    {"DW_AT_name", "DW_AT_type", "DW_AT_byte_size", "DW_AT_encoding",
     "DW_AT_data_member_location", "DW_AT_count", "DW_AT_bit_offset", "DW_AT_bit_size",
     "DW_AT_artificial", "DW_AT_const_value", "DW_AT_object_pointer", "DW_AT_low_pc"}

\* AttributeValue
String(str) == [form |-> "String", v |-> str]
Encoding(ate) == [form |-> "Encoding", v |-> ate]
UnitRef(id) == [form |-> "UnitRef", v |-> id]
Data1(n) == [form |-> "Data1", v |-> n]
Data8(n) == [form |-> "Data8", v |-> n]
Sdata(n) == [form |-> "Sdata", v |-> n]
Address(n) == [form |-> "Address", v |-> n]

\* DwarfWriter::new
DwarfWriter_new(info) == [unit |-> <<>>, types |-> info, cache |-> {}]

\* what a function of the writer returns
Wrote(w, id) == Val([w |-> w, id |-> id])

\* Unit::add: the writer after it, and the id of the new DIE
add(w, parent, tag) ==
    [w |-> [w EXCEPT !.unit = Append(@, [tag |-> tag, parent |-> parent,
                                         attrs |-> [a \in Attributes |-> None]])],
     id |-> Len(w.unit) + 1]

\* Unit::get_mut(id).set(attr, value)
set(w, id, attr, value) == [w EXCEPT !.unit[id].attrs[attr] = Some(value)]

\* self.cache.insert(name, id)
cache_insert(w, name, id) == [w EXCEPT !.cache = insert(@, name, id)]

min(a, b) == IF a <= b THEN a ELSE b

get_vtable_type_name(owner) == owner.name \o <<"_", "v", "f", "t">>
get_vtable_field_name(owner) == <<"v", "f", "t">>

RECURSIVE get_type(_, _, _)
RECURSIVE define_type(_, _, _)
RECURSIVE define_pointer(_, _, _, _)
RECURSIVE define_array(_, _, _, _, _)
RECURSIVE define_struct(_, _, _)
RECURSIVE struct_members(_, _, _, _, _)
RECURSIVE define_union(_, _, _)
RECURSIVE union_members(_, _, _, _)
RECURSIVE define_function_type(_, _, _)
RECURSIVE define_params(_, _, _, _)
RECURSIVE define_vtable(_, _, _)
RECURSIVE vtable_methods(_, _, _, _, _, _)
RECURSIVE define_virtual_method(_, _, _, _, _, _)

\* DwarfWriter::get_type
get_type(b, w, typ) ==
    Bind(Type_name(typ), LAMBDA name :
      Bind(get(w.cache, name), LAMBDA cached :
        IF cached.some THEN Wrote(w, cached.v)
        ELSE Then(define_type(b, w, typ), LAMBDA r :
               Wrote(cache_insert(r.w, name, r.id), r.id))))

\* DwarfWriter::define_base_type
define_base_type(b, w, typ, encoding) ==
    Bind(add(w, 0, "DW_TAG_base_type"), LAMBDA a :
      Bind(set(set(a.w, a.id, "DW_AT_name", String(Type_name(typ))),
               a.id, "DW_AT_encoding", Encoding(encoding)), LAMBDA named :
        IF typ = Type_Void THEN Wrote(set(named, a.id, "DW_AT_byte_size", Data1(0)), a.id)
        ELSE Then(Type_size(b, w.types, typ), LAMBDA size :
               IF size.some
               THEN Wrote(set(named, a.id, "DW_AT_byte_size", Data8(size.v)), a.id)
               ELSE Wrote(named, a.id))))

\* DwarfWriter::define_enum
define_enum(b, w, enum_) ==
    Bind(add(w, 0, "DW_TAG_enumeration_type"), LAMBDA a :
      Bind(set(a.w, a.id, "DW_AT_name", String(enum_.name)), LAMBDA named :
        Bind(IF enum_.size.some
             THEN set(named, a.id, "DW_AT_byte_size", Data8(enum_.size.v))
             ELSE named, LAMBDA sized :
          Wrote([sized EXCEPT !.unit = @ \o
                   [j \in 1..Len(enum_.members) |->
                      [tag |-> "DW_TAG_enumerator", parent |-> a.id,
                       attrs |-> [at \in Attributes |->
                          IF at = "DW_AT_name" THEN Some(String(enum_.members[j].name))
                          ELSE IF at = "DW_AT_const_value"
                          THEN Some(Sdata(enum_.members[j].value))
                          ELSE None]]]],
                a.id))))

\* DwarfWriter::define_type
define_type(b, w, typ) ==
    CASE typ.k = "Void" -> define_base_type(b, w, typ, "DW_ATE_signed")
      [] typ.k = "Bool" -> define_base_type(b, w, typ, "DW_ATE_boolean")
      [] typ.k = "Char" ->
            define_base_type(b, w, typ, IF typ.signed THEN "DW_ATE_signed_char"
                                                      ELSE "DW_ATE_unsigned_char")
      [] typ.k = "WChar" -> define_base_type(b, w, typ, "DW_ATE_unsigned_char")
      [] typ.k \in {"Short", "Int", "Long"} ->
            define_base_type(b, w, typ, IF typ.signed THEN "DW_ATE_signed"
                                                      ELSE "DW_ATE_unsigned")
      [] typ.k \in {"Float", "Double"} -> define_base_type(b, w, typ, "DW_ATE_float")
      [] typ.k = "Reference" -> define_pointer(b, w, typ.inner, "DW_TAG_reference_type")
      [] typ.k = "Pointer" -> define_pointer(b, w, typ.inner, "DW_TAG_pointer_type")
      [] typ.k = "Array" ->
            Then(Type_size(b, w.types, typ), LAMBDA size :
              define_array(b, w, typ.inner, size, None))
      [] typ.k = "FixedArray" ->
            Then(Type_size(b, w.types, typ), LAMBDA size :
              define_array(b, w, typ.inner, size, Some(typ.size)))
      [] typ.k = "Struct" ->
            Bind(get(w.types.structs, typ.id), LAMBDA struct_ty :
              IF struct_ty.some THEN define_struct(b, w, struct_ty.v) ELSE Panic)
      [] typ.k = "Enum" ->
            Bind(get(w.types.enums, typ.id), LAMBDA enum_ty :
              IF enum_ty.some THEN define_enum(b, w, enum_ty.v) ELSE Panic)
      [] typ.k = "Union" ->
            Bind(get(w.types.unions, typ.id), LAMBDA union_ty :
              IF union_ty.some THEN define_union(b, w, union_ty.v) ELSE Panic)
      [] typ.k = "Function" -> define_function_type(b, w, typ.fun)

\* DwarfWriter::define_pointer
define_pointer(b, w, inner, tag) ==
    Bind(add(w, 0, tag), LAMBDA a :
      Then(get_type(b, a.w, inner), LAMBDA r :
        Wrote(set(set(r.w, a.id, "DW_AT_type", UnitRef(r.id)),
                  a.id, "DW_AT_byte_size", Data8(POINTER_SIZE)), a.id)))

\* DwarfWriter::define_array
define_array(b, w, inner, byte_size, array_size) ==
    Bind(add(w, 0, "DW_TAG_array_type"), LAMBDA a :
      Then(get_type(b, a.w, inner), LAMBDA r :
        Bind(set(r.w, a.id, "DW_AT_type", UnitRef(r.id)), LAMBDA typed :
          Bind(IF byte_size.some
               THEN set(typed, a.id, "DW_AT_byte_size", Data8(byte_size.v))
               ELSE typed, LAMBDA sized :
            IF array_size.some
            THEN Bind(add(sized, a.id, "DW_TAG_subrange_type"), LAMBDA range :
                   Wrote(set(range.w, range.id, "DW_AT_count", Data8(array_size.v)), a.id))
            ELSE Wrote(sized, a.id)))))

\* DwarfWriter::define_struct
define_struct(b, w, struct_) ==
    Bind(add(w, 0, "DW_TAG_structure_type"), LAMBDA a :
      Bind(set(cache_insert(a.w, struct_.name, a.id),
               a.id, "DW_AT_name", String(struct_.name)), LAMBDA named :
        Bind(IF struct_.size.some
             THEN set(named, a.id, "DW_AT_byte_size", Data8(struct_.size.v))
             ELSE named, LAMBDA sized :
          IF has_virtual_methods(struct_, w.types)
          THEN Then(define_vtable(b, sized, struct_), LAMBDA vtable :
                 Bind(add(vtable.w, a.id, "DW_TAG_pointer_type"), LAMBDA this_pointer :
                   Bind(add(set(this_pointer.w, this_pointer.id, "DW_AT_type",
                                UnitRef(vtable.id)),
                            a.id, "DW_TAG_member"), LAMBDA this_param :
                     struct_members(b,
                       set(set(set(set(this_param.w,
                           this_param.id, "DW_AT_name", String(get_vtable_field_name(struct_))),
                           this_param.id, "DW_AT_type", UnitRef(this_pointer.id)),
                           this_param.id, "DW_AT_artificial", Data1(1)),
                           this_param.id, "DW_AT_data_member_location", Data8(0)),
                       a.id, all_members(struct_, w.types), POINTER_SIZE))))
          ELSE struct_members(b, sized, a.id, all_members(struct_, w.types), 0))))

\* the loop of define_struct over the members, from the running offset
struct_members(b, w, id, members, offset) ==
    IF members = <<>> THEN Wrote(w, id)
    ELSE
      Then(get_type(b, w, Head(members).typ), LAMBDA t :
        Bind(add(t.w, id, "DW_TAG_member"), LAMBDA m :
          Bind(set(m.w, m.id, "DW_AT_name", String(Head(members).name)), LAMBDA named :
            IF Head(members).bit_offset.some
            THEN Bind(Head(members).bit_offset.v \div 8, LAMBDA at :
                   Bind(set(set(named, m.id, "DW_AT_data_member_location", Data8(at)),
                            m.id, "DW_AT_type", UnitRef(t.id)), LAMBDA placed :
                     struct_members(b,
                       IF Head(members).is_bitfield
                       THEN set(set(placed, m.id, "DW_AT_bit_offset",
                                    Data8(Head(members).bit_offset.v)),
                                m.id, "DW_AT_bit_size", Data1(1))
                       ELSE placed,
                       id, Tail(members), at)))
            ELSE Bind(set(set(named, m.id, "DW_AT_data_member_location", Data8(offset)),
                          m.id, "DW_AT_type", UnitRef(t.id)), LAMBDA placed :
                   Then(Type_size(b, w.types, Head(members).typ), LAMBDA size :
                     IF ~size.some THEN struct_members(b, placed, id, Tail(members), offset)
                     ELSE IF min(size.v, MAX_ALIGN) = 0 THEN Panic
                     ELSE Then(UAdd(b.oc, offset, offset % min(size.v, MAX_ALIGN)),
                               LAMBDA aligned :
                            Then(UAdd(b.oc, aligned, size.v), LAMBDA next :
                              struct_members(b, placed, id, Tail(members), next))))))))

\* DwarfWriter::define_union
define_union(b, w, struct_) ==
    Bind(add(w, 0, "DW_TAG_union_type"), LAMBDA a :
      Bind(set(cache_insert(a.w, struct_.name, a.id),
               a.id, "DW_AT_name", String(struct_.name)), LAMBDA named :
        union_members(b,
                      IF struct_.size.some
                      THEN set(named, a.id, "DW_AT_byte_size", Data8(struct_.size.v))
                      ELSE named,
                      a.id, struct_.members)))

\* the loop of define_union over the members
union_members(b, w, id, members) ==
    IF members = <<>> THEN Wrote(w, id)
    ELSE
      Then(get_type(b, w, Head(members).typ), LAMBDA t :
        Bind(add(t.w, id, "DW_TAG_member"), LAMBDA m :
          union_members(b,
            set(set(set(m.w, m.id, "DW_AT_name", String(Head(members).name)),
                    m.id, "DW_AT_type", UnitRef(t.id)),
                m.id, "DW_AT_data_member_location",
                Data8(IF Head(members).bit_offset.some
                      THEN Head(members).bit_offset.v \div 8 ELSE 0)),
            id, Tail(members))))

\* the loops over the parameters of a function: a formal parameter each
define_params(b, w, id, params) ==
    IF params = <<>> THEN Wrote(w, id)
    ELSE
      Then(get_type(b, w, Head(params)), LAMBDA t :
        Bind(add(t.w, id, "DW_TAG_formal_parameter"), LAMBDA arg :
          define_params(b, set(arg.w, arg.id, "DW_AT_type", UnitRef(t.id)),
                        id, Tail(params))))

\* DwarfWriter::define_function_type
define_function_type(b, w, fun) ==
    Bind(add(w, 0, "DW_TAG_subroutine_type"), LAMBDA a :
      Then(get_type(b, a.w, fun.return_type), LAMBDA ret_type :
        define_params(b, set(ret_type.w, a.id, "DW_AT_type", UnitRef(ret_type.id)),
                      a.id, fun.params)))

\* DwarfWriter::define_vtable
define_vtable(b, w, struct_) ==
    Bind(add(w, 0, "DW_TAG_structure_type"), LAMBDA a :
      Then(UMul(b.oc, Len(all_virtual_methods(struct_, w.types)), POINTER_SIZE), LAMBDA size :
        vtable_methods(b,
          set(set(a.w, a.id, "DW_AT_name", String(get_vtable_type_name(struct_))),
              a.id, "DW_AT_byte_size", Data8(size)),
          a.id, struct_, all_virtual_methods(struct_, w.types), 0)))

\* the loop of define_vtable over the methods, from index i
vtable_methods(b, w, id, struct_, methods, i) ==
    IF methods = <<>> THEN Wrote(w, id)
    ELSE
      Then(define_virtual_method(b, w, id, struct_.name, i, Head(methods)), LAMBDA method :
        Bind(add(method.w, id, "DW_TAG_pointer_type"), LAMBDA ptr :
          Bind(add(set(ptr.w, ptr.id, "DW_AT_type", UnitRef(method.id)),
                   id, "DW_TAG_member"), LAMBDA m :
            Then(UMul(b.oc, i, POINTER_SIZE), LAMBDA location :
              vtable_methods(b,
                set(set(set(m.w, m.id, "DW_AT_name", String(Head(methods).name)),
                        m.id, "DW_AT_type", UnitRef(ptr.id)),
                    m.id, "DW_AT_data_member_location", Data8(location)),
                id, struct_, Tail(methods), i + 1)))))

\* DwarfWriter::define_virtual_method
define_virtual_method(b, w, parent, parent_id, index, method) ==
    Bind(add(w, parent, "DW_TAG_subroutine_type"), LAMBDA a :
      Bind(add(a.w, a.id, "DW_TAG_formal_parameter"), LAMBDA this_arg :
        Then(get_type(b, this_arg.w, Type_Pointer(Type_Struct(parent_id))), LAMBDA this_type :
          Then(get_type(b, this_type.w, method.typ.return_type), LAMBDA ret_type :
            Then(UMul(b.oc, index, POINTER_SIZE), LAMBDA location :
              define_params(b,
                set(set(set(set(set(ret_type.w,
                    a.id, "DW_AT_type", UnitRef(ret_type.id)),
                    a.id, "DW_AT_data_member_location", Data8(location)),
                    a.id, "DW_AT_object_pointer", UnitRef(this_type.id)),
                    this_arg.id, "DW_AT_type", UnitRef(this_type.id)),
                    this_arg.id, "DW_AT_artificial", Data1(1)),
                a.id, method.typ.params))))))

\* DwarfWriter::define_function_symbol: Panic or Val of the writer after it
define_function_symbol(b, w, fun, base) ==
    Bind(add(w, 0, "DW_TAG_subprogram"), LAMBDA a :
      Then(get_type(b, a.w, fun.function_type.return_type), LAMBDA ret_type :
        Then(low_pc(b.oc, base, fun), LAMBDA pc_ :
          Then(define_params(b,
                 set(set(set(ret_type.w, a.id, "DW_AT_name", String(fun.name)),
                         a.id, "DW_AT_low_pc", Address(pc_)),
                     a.id, "DW_AT_type", UnitRef(ret_type.id)),
                 a.id, fun.function_type.params),
               LAMBDA r : Val(r.w)))))

(***************************************************************************)
(* Calls of single functions: Init draws the function and its arguments,   *)
(* the action of the function applies it.                                  *)
(***************************************************************************)
\* the call returned r (Panic or Val(v))
Returns(r) ==
    /\ pc' = IF r.panic THEN "call_panic" ELSE "called"
    /\ ret' = IF r.panic THEN None ELSE Some(r.v)
    /\ UNCHANGED <<overflow_checks, specs, text, exe, items, hits, matches,
                   match_map, syms, errs, result, low_pcs, call,
                   writer, cfg_windows, resolver>>

\* an executable of the given sections, .text at 0
DataOf(t, rd, ro) ==
    [text |-> t, rdata |-> rd, rdata_offset |-> ro, text_offset |-> 0, image_base |-> 0]

\* addresses around the end of the longest .text and at the end of the u64 range
TextAddrs == 0..(MaxText + 1) \cup (WordMod - I32_BYTES - 1)..(WordMod - 1)

\* addresses around the .rdata at ro and at the end of the u64 range
RdataAddrs(ro) ==
    {a \in (ro - MaxOffset - 1)..(ro + U64_BYTES + 1) : a >= 0}
    \cup (WordMod - U64_BYTES - 1)..(WordMod - 1)

RelTextCalls ==
    {[fn |-> "resolve_rel_text", data |-> DataOf(t, RData, MaxText), addr |-> a] :
        t \in Texts, a \in TextAddrs}

RelRdataCalls ==
    {[fn |-> "resolve_rel_rdata", data |-> DataOf(<<>>, rd, ro), addr |-> a] :
        <<rd, ro, a>> \in
          UNION {{<<rd, ro, a>> : a \in RdataAddrs(ro)} :
                   <<rd, ro>> \in {RData, SubSeq(RData, 1, U64_BYTES), <<>>}
                                  \X {0, MaxText}}}

\* the characters of the expressions tried
ExprChars == {"a", "1", "+", "-", "*", "(", ")", " "}

\* longer expressions: two operators, blanks, parentheses
LongExprs ==
    {<<"a", "-", "a", "+", "1">>, <<"a", "+", "a", "-", "1">>,
     <<"*", "a", " ", "+", "1">>, <<"*", "a", " ", "-", "1">>,
     <<"*", "a", " ", "+", " ", "1">>, <<"(", "*", "a", ")", "+", "1">>,
     <<"a", "-", "(", "a", "+", "1", ")">>}

ExprCalls ==
    {[fn |-> "Expr::parse", str |-> str] : str \in SeqsUpTo(ExprChars, MaxExpr) \cup LongExprs}

\* values of the bound variables: both ends and the middle of the u64 range
EvalValues == {0, 1, WordMod \div 2, WordMod - 1}

EvalOperands == {Expr_Ident("a"), Expr_Ident("b"), Expr_Int(0), Expr_Int(1)}

EvalCalls ==
    {[fn |-> "Expr::eval", expr |-> e,
      ctx |-> <<[name |-> "a", abs |-> a], [name |-> "b", abs |-> b]>>,
      data |-> DataOf(<<>>, <<>>, 0)] :
        <<e, a, b>> \in
          ({Expr_Add(l, r) : <<l, r>> \in EvalOperands \X EvalOperands}
             \cup {Expr_Sub(l, r) : <<l, r>> \in EvalOperands \X EvalOperands})
          \X EvalValues \X EvalValues}

\* the characters of the patterns tried
PatChars == {"8", "B", "b", "?", " ", "\t"}

\* longer patterns, patterns with a capture group
GroupStrs ==
    {<<"8", "B", " ", "\t", "?">>, <<"8", "b", "8", "B", "?", "?">>,
     <<"(", "f", ":", "r", "e", "l", ")">>,
     <<"8", "B", "(", "f", ":", "r", "e", "l", ")", "?">>,
     <<"(", " ", "f", " ", ":", "\t", "r", "e", "l", " ", ")", " ", "8", "B">>,
     <<"(", "f", ":", "r", "e", ")">>,
     <<"(", ":", "r", "e", "l", ")">>}

PatternParseCalls ==
    {[fn |-> "Pattern::parse", str |-> str] :
        str \in SeqsUpTo(PatChars, MaxPatStr) \cup GroupStrs}

\* the patterns of the calls of Pattern's methods
CallPatterns == SeqsUpTo(PatItems, MaxPatLen)

DoesMatchCalls ==
    {[fn |-> "does_match", parts |-> parts, bytes |-> bytes] :
        <<parts, bytes>> \in CallPatterns \X Texts}

LongestCalls == {[fn |-> "longest_byte_sequence", parts |-> parts] : parts \in CallPatterns}

\* a comment line, with what it is: the parameter it sets ("none" for a line
\* that is no parameter, "other" for a key that is none of the four) and the
\* value it gives (None for a value that is malformed)
CommentLine(line, key, val) == [line |-> line, key |-> key, val |-> val]

CommentLines ==
    {\* /// @pattern 8B (f:rel)
     CommentLine(<<"/", "/", "/", " ", "@", "p", "a", "t", "t", "e", "r", "n", " ", "8", "B", " ", "(", "f", ":", "r", "e", "l", ")">>,
                 "pattern", Some(<<Byte(139), Group(<<"f">>)>>)),
     \* /// @offset -1
     CommentLine(<<"/", "/", "/", " ", "@", "o", "f", "f", "s", "e", "t", " ", "-", "1">>,
                 "offset", Some(-1)),
     \* /// @eval f
     CommentLine(<<"/", "/", "/", " ", "@", "e", "v", "a", "l", " ", "f">>,
                 "eval", Some(Expr_Ident(<<"f">>))),
     \* /// @nth 1/2
     CommentLine(<<"/", "/", "/", " ", "@", "n", "t", "h", " ", "1", "/", "2">>,
                 "nth", Some(<<1, 2>>)),
     \*   ///  @nth  0 / 1 
     CommentLine(<<" ", " ", "/", "/", "/", " ", " ", "@", "n", "t", "h", " ", " ", "0", " ", "/", " ", "1", " ">>,
                 "nth", Some(<<0, 1>>)),
     \* /// @foo 1
     CommentLine(<<"/", "/", "/", " ", "@", "f", "o", "o", " ", "1">>,
                 "other", None),
     \* /// text
     CommentLine(<<"/", "/", "/", " ", "t", "e", "x", "t">>,
                 "none", None),
     \* // @pattern 8B
     CommentLine(<<"/", "/", " ", "@", "p", "a", "t", "t", "e", "r", "n", " ", "8", "B">>,
                 "none", None),
     \* /// @pattern
     CommentLine(<<"/", "/", "/", " ", "@", "p", "a", "t", "t", "e", "r", "n">>,
                 "none", None),
     \* /// @offset x
     CommentLine(<<"/", "/", "/", " ", "@", "o", "f", "f", "s", "e", "t", " ", "x">>,
                 "offset", None)}

SpecCalls ==
    {[fn |-> "FunctionSpec::new", name |-> 0, comments |-> cs] :
        cs \in SeqsUpTo(CommentLines, MaxComments)}

\* the types over base built with at most depth constructors around a base type
RECURSIVE TypesOver(_, _)
TypesOver(base, depth) ==
    IF depth = 0 THEN base
    ELSE LET inner == TypesOver(base, depth - 1) IN
         base \cup {Type_Pointer(t) : t \in inner} \cup {Type_Array(t) : t \in inner}
              \cup {Type_FixedArray(t, 1) : t \in inner}
              \cup {Type_Function(FunctionType(<<>>, t)) : t \in inner}

\* the types named: a primitive, and a struct and an enum of one identifier
NameTypes ==
    TypesOver({Type_Int(TRUE), Type_Char(FALSE), Type_Struct(<<"S">>), Type_Enum(<<"S">>)},
              MaxTypeDepth)

NameCalls == {[fn |-> "Type::name", typ |-> typ] : typ \in NameTypes}

\* patterns with up to MaxPatLen groups of different names
GroupPatterns == SeqsUpTo(PatItems \cup {Group("g"), Group("h")}, MaxPatLen)

GroupsCalls == {[fn |-> f, parts |-> parts] : <<f, parts>> \in {"groups", "size"} \X GroupPatterns}

Calls ==
    RelTextCalls \cup RelRdataCalls \cup ExprCalls \cup EvalCalls \cup PatternParseCalls
      \cup DoesMatchCalls \cup LongestCalls \cup GroupsCalls \cup SpecCalls
      \cup NameCalls

InitCall ==
    /\ overflow_checks \in BOOLEAN
    /\ pc = "ready"
    /\ specs = <<>>
    /\ text = <<>>
    /\ exe = Exe(0, 0)
    /\ items = <<>>
    /\ hits = <<>>
    /\ matches = <<>>
    /\ match_map = <<>>
    /\ syms = <<>>
    /\ errs = <<>>
    /\ result = None
    /\ low_pcs = <<>>
    /\ call \in Calls
    /\ ret = None
    /\ writer = None
    /\ cfg_windows = FALSE
    /\ resolver = None

Call_resolve_rel_text ==
    /\ pc = "ready"
    /\ call.fn = "resolve_rel_text"
    /\ Returns(resolve_rel_text(overflow_checks, call.data, call.addr))

Call_resolve_rel_rdata ==
    /\ pc = "ready"
    /\ call.fn = "resolve_rel_rdata"
    /\ Returns(resolve_rel_rdata(overflow_checks, call.data, call.addr))

Call_Expr_parse ==
    /\ pc = "ready"
    /\ call.fn = "Expr::parse"
    /\ Returns(Val(Expr_parse(call.str)))

Call_Expr_eval ==
    /\ pc = "ready"
    /\ call.fn = "Expr::eval"
    /\ Returns(eval(overflow_checks, call.expr, call.ctx, call.data))

Call_Pattern_parse ==
    /\ pc = "ready"
    /\ call.fn = "Pattern::parse"
    /\ Returns(Val(Pattern_parse(call.str)))

Call_does_match ==
    /\ pc = "ready"
    /\ call.fn = "does_match"
    /\ Returns(Val(does_match(call.parts, call.bytes)))

Call_longest_byte_sequence ==
    /\ pc = "ready"
    /\ call.fn = "longest_byte_sequence"
    /\ Returns(Val(longest_byte_sequence(call.parts)))

Call_groups ==
    /\ pc = "ready"
    /\ call.fn = "groups"
    /\ Returns(Val(groups(call.parts)))

Call_size ==
    /\ pc = "ready"
    /\ call.fn = "size"
    /\ Returns(Val(Pattern_size(call.parts)))

Call_FunctionSpec_new ==
    /\ pc = "ready"
    /\ call.fn = "FunctionSpec::new"
    /\ \E params \in {collect_params([k \in 1..Len(call.comments) |-> call.comments[k].line],
                                     {})} :
         \E first_key \in IF KeysLeft(params) = {} THEN {None}
                          ELSE {Some(k) : k \in KeysLeft(params)} :
            Returns(Val(FunctionSpec_new(call.name, params, first_key)))

Call_Type_name ==
    /\ pc = "ready"
    /\ call.fn = "Type::name"
    /\ Returns(Val(Type_name(call.typ)))

NextCall ==
    \/ Call_Type_name
    \/ Call_FunctionSpec_new
    \/ Call_groups
    \/ Call_size
    \/ Call_longest_byte_sequence
    \/ Call_does_match
    \/ Call_Pattern_parse
    \/ Call_Expr_eval
    \/ Call_resolve_rel_text
    \/ Call_resolve_rel_rdata
    \/ Call_Expr_parse

SpecCall == InitCall /\ [][NextCall]_vars

(***************************************************************************)
(* The writer of the symbol file: a sequence of get_type and               *)
(* define_function_symbol calls on one DwarfWriter.                        *)
(***************************************************************************)
IdS == <<"S">>
IdU == <<"U">>
IdE == <<"E">>
IdV == <<"V">>
IdD == <<"D">>
IdP == <<"P">>
IdZ == <<"Z">>

\* struct S { S* next; }: a struct with a member that points to it
StructS ==
    StructType(IdS, None, <<DataMember_basic(<<"n">>, Type_Pointer(Type_Struct(IdS)))>>,
               <<>>, Some(POINTER_SIZE))

\* struct V { virtual void m(int32_t); }
StructV ==
    StructType(IdV, None, <<>>,
               <<Method(<<"m">>, FunctionType(<<Type_Int(TRUE)>>, Type_Void))>>,
               Some(POINTER_SIZE))

\* struct D : V { char c; int32_t i; unsigned b : 1; virtual V* n(D&); }
StructD ==
    StructType(IdD, Some(IdV),
               <<DataMember_basic(<<"c">>, Type_Char(TRUE)),
                 DataMember_basic(<<"i">>, Type_Int(TRUE)),
                 DataMember(<<"b">>, Type_Int(FALSE), Some(16 * POINTER_SIZE), TRUE)>>,
               <<Method(<<"n">>, FunctionType(<<Type_Reference(Type_Struct(IdD))>>,
                                              Type_Pointer(Type_Struct(IdV))))>>,
               None)

\* struct P { char c; int32_t i; char d; }, the offsets of the members not recorded
StructP ==
    StructType(IdP, None,
               <<DataMember_basic(<<"c">>, Type_Char(TRUE)),
                 DataMember_basic(<<"i">>, Type_Int(TRUE)),
                 DataMember_basic(<<"d">>, Type_Char(TRUE))>>,
               <<>>, Some(3 * I32_BYTES))

\* struct Z { char c; int32_t z[0]; }: a member of a known size of 0
StructZ ==
    StructType(IdZ, None,
               <<DataMember_basic(<<"c">>, Type_Char(TRUE)),
                 DataMember_basic(<<"z">>, Type_FixedArray(Type_Int(TRUE), 0))>>,
               <<>>, Some(I32_BYTES))

UnionU ==
    UnionType(IdU, <<DataMember_basic(<<"w">>, Type_WChar),
                     DataMember_basic(<<"s">>, Type_Pointer(Type_Struct(IdS)))>>, None)

EnumE == EnumType(IdE, <<EnumMember(<<"a">>, 0), EnumMember(<<"b">>, -1)>>, Some(I32_BYTES))

TypeInfos ==
    {TypeInfo({<<IdS, StructS>>}, {<<IdU, UnionU>>}, {<<IdE, EnumE>>}),
     TypeInfo({<<IdS, StructS>>, <<IdV, StructV>>, <<IdD, StructD>>}, {}, {<<IdE, EnumE>>}),
     TypeInfo({<<IdP, StructP>>, <<IdZ, StructZ>>}, {}, {})}

\* the types of info asked of the writer
WriterTypes(info) ==
    IF get(info.structs, IdP).some
    THEN {Type_Void, Type_WChar, Type_Struct(IdP), Type_Struct(IdZ),
          Type_Function(FunctionType(<<Type_Int(TRUE)>>, Type_Void)),
          Type_FixedArray(Type_Struct(IdP), MaxOffset + 1)}
    ELSE {Type_Int(TRUE), Type_Struct(IdS), Type_Pointer(Type_Struct(IdS)), Type_Enum(IdE),
          Type_FixedArray(Type_Pointer(Type_Struct(IdS)), MaxOffset + 1),
          Type_Reference(Type_Array(Type_Int(TRUE)))}
         \cup (IF info.unions # {} THEN {Type_Union(IdU)} ELSE {Type_Struct(IdD)})

\* the function symbols written
WriterSymbols(info) ==
    IF get(info.structs, IdP).some
    THEN {FunctionSymbol_new(<<"f">>, FunctionType(<<Type_Struct(IdP)>>, Type_Void), 0)}
    ELSE {FunctionSymbol_new(<<"f">>, FunctionType(params, r), rva) :
            params \in {<<>>, <<Type_Pointer(Type_Struct(IdS)), Type_Int(TRUE)>>},
            r \in {Type_Void, Type_Pointer(Type_Struct(IdS))},
            rva \in {0, WordMod - 1}}

InitDwarf ==
    /\ overflow_checks \in BOOLEAN
    /\ cfg_windows \in BOOLEAN
    /\ resolver = None
    /\ writer \in {DwarfWriter_new(info) : info \in TypeInfos}
    /\ exe \in {Exe(0, 0), Exe(1, 0)}
    /\ pc = "ready"
    /\ specs = <<>>
    /\ text = <<>>
    /\ items = <<>>
    /\ hits = <<>>
    /\ matches = <<>>
    /\ match_map = <<>>
    /\ syms = <<>>
    /\ errs = <<>>
    /\ result = None
    /\ low_pcs = <<>>
    /\ call = None
    /\ ret = None

\* the writer made one call that returned r: Panic, or Val of the writer after
\* it (w) and of what the call returned (id)
Written(c, r) ==
    /\ call' = c
    /\ IF r.panic
       THEN pc' = "write_panic" /\ UNCHANGED <<writer, ret>>
       ELSE pc' = "ready" /\ writer' = r.v.w /\ ret' = Some(r.v.id)
    /\ UNCHANGED <<overflow_checks, specs, text, exe, items, hits, matches,
                   match_map, syms, errs, result, low_pcs, cfg_windows,
                   resolver>>

GetType ==
    /\ pc = "ready"
    /\ Len(writer.unit) < MaxDies
    /\ \E typ \in WriterTypes(writer.types) :
         \E r \in {get_type(Build(overflow_checks, cfg_windows), writer, typ)} :
            Written([fn |-> "get_type", typ |-> typ], r)

DefineFunctionSymbol ==
    /\ pc = "ready"
    /\ Len(writer.unit) < MaxDies
    /\ \E fun \in WriterSymbols(writer.types) :
         \E r \in {define_function_symbol(Build(overflow_checks, cfg_windows), writer, fun,
                                          image_base(exe))} :
            Written([fn |-> "define_function_symbol", fun |-> fun],
                    IF r.panic THEN Panic ELSE Wrote(r.v, 0))

NextDwarf ==
    \/ GetType
    \/ DefineFunctionSymbol

SpecDwarf == InitDwarf /\ [][NextDwarf]_vars

(***************************************************************************)
(* clang/src/resolver.rs: the TypeResolver of the clang front end.  The    *)
(* declarations of the translation unit are entities looked up by their    *)
(* display name; a clang type names its declaration.  A function of the    *)
(* resolver returns the resolver after it (r) and Ok(value) or Err(error)  *)
(* (res): what it changed before a `?` returned stays changed.             *)
(***************************************************************************)
UnexpectedKind(kind) == [kind |-> "UnexpectedKind", of |-> kind]
UnexpectedType(kind) == [kind |-> "UnexpectedType", of |-> kind]
UnresolvedType(name) == [kind |-> "UnresolvedType", of |-> name]

\* StructType::stub
StructType_stub(name) == StructType(name, None, <<>>, <<>>, None)

\* TypeResolver::new; a ScopeMap starts with its bottom layer
TypeResolver_new ==
    [structs |-> {}, unions |-> {}, enums |-> {}, local_types |-> <<{}>>]

\* TypeResolver::into_types
into_types(r) == TypeInfo(r.structs, r.unions, r.enums)

\* ScopeMap::push_layer
push_layer(r) == [r EXCEPT !.local_types = Append(@, {})]

\* ScopeMap::pop_layer: the topmost layer goes unless it is the bottom layer
pop_layer(r) ==
    IF Len(r.local_types) > 1
    THEN [r EXCEPT !.local_types = SubSeq(@, 1, Len(@) - 1)]
    ELSE r

\* ScopeMap::define: the entry goes to the topmost layer
define(r, key, typ) ==
    [r EXCEPT !.local_types[Len(r.local_types)] = insert(@, key, typ)]

\* ScopeMap::get: the value of the topmost layer that has the key
RECURSIVE scope_get(_, _)
scope_get(layers, key) ==
    IF layers = <<>> THEN None
    ELSE IF get(layers[Len(layers)], key).some THEN get(layers[Len(layers)], key)
    ELSE scope_get(SubSeq(layers, 1, Len(layers) - 1), key)

\* what a function of the resolver returns
Res(r, res) == [r |-> r, res |-> res]

\* the `?` operator: go on with the value, or return the error
AndThen(x, F(_, _)) == IF x.res.ok THEN F(x.r, x.res.v) ELSE x

\* the clang types of the translation unit
ClangPrim(kind) == [kind |-> kind, args |-> None]
ClangPointer(kind, pointee) == [kind |-> kind, args |-> None, pointee |-> pointee]
ClangRecord(decl, args) == [kind |-> "Record", args |-> args, decl |-> decl]
ClangEnum(decl) == [kind |-> "Enum", args |-> None, decl |-> decl]
ClangTypedef(canonical) == [kind |-> "Typedef", args |-> None, canonical |-> canonical]
ClangElaborated(named) == [kind |-> "Elaborated", args |-> None, named |-> named]
ClangFunction(result_type, params) ==
    [kind |-> "FunctionPrototype", args |-> None, result |-> result_type, params |-> params]
ClangArray(element, size) ==
    [kind |-> "ConstantArray", args |-> None, element |-> element, size |-> size]
ClangUnexposed(name) == [kind |-> "Unexposed", args |-> None, name |-> name]

\* the children of an entity that resolve_struct and resolve_union look at
FieldDecl(name, typ, offset) ==
    [kind |-> "FieldDecl", name |-> name, typ |-> typ, offset |-> offset,
     is_bit_field |-> FALSE, is_virtual |-> FALSE]
MethodDecl(name, typ, is_virtual) ==
    [kind |-> "Method", name |-> name, typ |-> typ, offset |-> None,
     is_bit_field |-> FALSE, is_virtual |-> is_virtual]

\* an entity: its kind, its display name, its template (get_template), the type
\* parameters at the head of its children, its base and its other children
Entity(kind, name, template, params, base, children, size) ==
    [kind |-> kind, name |-> name, template |-> template, params |-> params,
     base |-> base, children |-> children, size |-> size]

NameA == <<"A">>
NameN == <<"N">>
NameB == <<"B">>
NameBInt == <<"B", "<", "i", "n", "t", ">">>
NameC == <<"C">>
NameCInt == <<"C", "<", "i", "n", "t", ">">>
NameF == <<"F">>
NameG == <<"G">>
NameH == <<"H">>
NameT == <<"T">>
NameW == <<"W">>

ClangInt == ClangPrim("Int")
\* a type kind the resolver has no arm for
ClangVector == ClangPrim("Vector")
ClangBInt == ClangRecord(NameBInt, Some(<<Some(ClangInt)>>))
ClangCInt == ClangRecord(NameCInt, Some(<<Some(ClangInt)>>))

\* the declarations of the translation unit:
\*   struct A { int x; };             struct N { N* n; };
\*   template<class T> struct B { T v; };
\*   template<class T> struct C { T v; vector bad; };
\*   struct F { A a; vector bad; };   struct G { C<int> c; };
\*   struct H { T t; };  (T is no type outside a template)
\*   union W { vector bad; };          enum E { a, b = -1 };
Entities ==
    {Entity("StructDecl", NameA, None, <<>>, None,
            <<FieldDecl(<<"x">>, ClangInt, Some(0))>>, Some(I32_BYTES)),
     Entity("StructDecl", NameN, None, <<>>, None,
            <<FieldDecl(<<"n">>, ClangPointer("Pointer", ClangRecord(NameN, None)), Some(0))>>,
            Some(POINTER_SIZE)),
     Entity("ClassTemplate", NameB, None, <<NameT>>, None,
            <<FieldDecl(<<"v">>, ClangUnexposed(NameT), None)>>, None),
     Entity("StructDecl", NameBInt, Some(NameB), <<>>, None, <<>>, Some(I32_BYTES)),
     Entity("ClassTemplate", NameC, None, <<NameT>>, None,
            <<FieldDecl(<<"v">>, ClangUnexposed(NameT), None),
              FieldDecl(<<"bad">>, ClangVector, None)>>, None),
     Entity("StructDecl", NameCInt, Some(NameC), <<>>, None, <<>>, None),
     Entity("StructDecl", NameF, None, <<>>, Some(NameA),
            <<FieldDecl(<<"a">>, ClangElaborated(ClangRecord(NameA, None)), Some(0)),
              FieldDecl(<<"bad">>, ClangVector, None),
              MethodDecl(<<"m">>, ClangFunction(ClangPrim("Void"), <<ClangInt>>), TRUE)>>,
            None),
     Entity("StructDecl", NameG, None, <<>>, None,
            <<FieldDecl(<<"c">>, ClangCInt, Some(0))>>, None),
     Entity("StructDecl", NameH, None, <<>>, None,
            <<FieldDecl(<<"t">>, ClangUnexposed(NameT), Some(0)),
              MethodDecl(<<"m">>, ClangFunction(ClangPrim("Void"), <<>>), TRUE),
              MethodDecl(<<"s">>, ClangFunction(ClangPrim("Void"), <<>>), FALSE)>>,
            Some(I32_BYTES)),
     Entity("UnionDecl", NameW, None, <<>>, None,
            <<FieldDecl(<<"bad">>, ClangVector, Some(0))>>, Some(I32_BYTES)),
     Entity("EnumDecl", IdE, None, <<>>, None,
            <<[kind |-> "EnumConstantDecl", name |-> <<"a">>, value |-> 0],
              [kind |-> "EnumConstantDecl", name |-> <<"b">>, value |-> -1]>>,
            Some(I32_BYTES)),
     Entity("FunctionDecl", <<"f">>, None, <<>>, None, <<>>, None)}

\* Type::get_declaration, Entity::get_template, Entity::get_definition
EntityOf(name) == CHOOSE e \in Entities : e.name = name

\* the arms of resolve_type for the types without an inner type
Primitive(kind) ==
    CASE kind = "Void" -> Some(Type_Void)
      [] kind = "Bool" -> Some(Type_Bool)
      [] kind \in {"CharS", "SChar"} -> Some(Type_Char(TRUE))
      [] kind \in {"CharU", "UChar"} -> Some(Type_Char(FALSE))
      [] kind = "WChar" -> Some(Type_WChar)
      [] kind = "Short" -> Some(Type_Short(TRUE))
      [] kind = "UShort" -> Some(Type_Short(FALSE))
      [] kind = "Int" -> Some(Type_Int(TRUE))
      [] kind = "UInt" -> Some(Type_Int(FALSE))
      [] kind \in {"Long", "LongLong"} -> Some(Type_Long(TRUE))
      [] kind \in {"ULong", "ULongLong"} -> Some(Type_Long(FALSE))
      [] kind = "Float" -> Some(Type_Float)
      [] kind = "Double" -> Some(Type_Double)
      [] OTHER -> None

\* TypeResolver::generate_type_name for an entity of the translation unit itself
generate_type_name(entity) == entity.name

\* TypeResolver::resolve_enum; it has no `?` and changes nothing of the resolver
resolve_enum(name, entity) ==
    EnumType(name,
             [j \in 1..Len(entity.children) |->
                EnumMember(entity.children[j].name, entity.children[j].value)],
             entity.size)

RECURSIVE resolve_type(_, _)
RECURSIVE bind_args(_, _, _)
RECURSIVE resolve_kind(_, _)
RECURSIVE resolve_decl(_, _)
RECURSIVE resolve_struct(_, _, _, _)
RECURSIVE struct_children(_, _, _, _)
RECURSIVE resolve_union(_, _, _)
RECURSIVE union_children(_, _, _)
RECURSIVE resolve_function(_, _)
RECURSIVE function_params(_, _, _)

\* resolve_type, lines 89-100: the loop over the type parameters of the template
\* zipped with the template arguments
bind_args(r, params, args) ==
    IF params = <<>> \/ args = <<>> THEN Res(r, Ok(TRUE))
    ELSE IF Head(args).some
         THEN AndThen(resolve_type(r, Head(args).v), LAMBDA r1, typ :
                bind_args(define(r1, Head(params), typ), Tail(params), Tail(args)))
         ELSE bind_args(r, Tail(params), Tail(args))

\* resolve_type, lines 103-156: the match on the kind of the type
resolve_kind(r, typ) ==
    CASE Primitive(typ.kind).some -> Res(r, Ok(Primitive(typ.kind).v))
      [] typ.kind = "Pointer" ->
            AndThen(resolve_type(r, typ.pointee), LAMBDA r1, inner :
              Res(r1, Ok(Type_Pointer(inner))))
      [] typ.kind \in {"LValueReference", "RValueReference"} ->
            AndThen(resolve_type(r, typ.pointee), LAMBDA r1, inner :
              Res(r1, Ok(Type_Reference(inner))))
      [] typ.kind \in {"Enum", "Record"} -> resolve_decl(r, EntityOf(typ.decl))
      [] typ.kind = "Typedef" -> resolve_type(r, typ.canonical)
      [] typ.kind = "FunctionPrototype" ->
            AndThen(resolve_function(r, typ), LAMBDA r1, fun :
              Res(r1, Ok(Type_Function(fun))))
      [] typ.kind \in {"ConstantArray", "DependentSizedArray"} ->
            AndThen(resolve_type(r, typ.element), LAMBDA r1, inner :
              Res(r1, Ok(Type_FixedArray(inner, typ.size))))
      [] typ.kind = "Elaborated" -> resolve_type(r, typ.named)
      [] typ.kind = "Unexposed" ->
            IF typ.args.some THEN resolve_decl(r, EntityOf(typ.decl))
            ELSE IF scope_get(r.local_types, typ.name).some
                 THEN Res(r, Ok(scope_get(r.local_types, typ.name).v))
                 ELSE Res(r, Err(UnresolvedType(typ.name)))
      [] OTHER -> Res(r, Err(UnexpectedType(typ.kind)))

\* TypeResolver::resolve_type
resolve_type(r, typ) ==
    IF typ.args.some
    THEN AndThen(bind_args(push_layer(r),
                           (IF EntityOf(typ.decl).kind = "ClassTemplate"
                            THEN EntityOf(typ.decl)
                            ELSE EntityOf(EntityOf(typ.decl).template.v)).params,
                           typ.args.v),
                 LAMBDA r1, bound :
                   AndThen(resolve_kind(r1, typ), LAMBDA r2, res :
                     Res(pop_layer(r2), Ok(res))))
    ELSE resolve_kind(r, typ)

\* TypeResolver::resolve_decl
resolve_decl(r, entity) ==
    Bind(generate_type_name(entity), LAMBDA name :
      CASE entity.kind \in {"StructDecl", "ClassDecl", "ClassTemplate"} ->
              IF ~get(r.structs, name).some
              THEN AndThen(resolve_struct(
                             [r EXCEPT !.structs = insert(@, name, StructType_stub(name))],
                             name,
                             IF entity.template.some THEN EntityOf(entity.template.v)
                             ELSE entity,
                             entity.size),
                           LAMBDA r1, res :
                             Res([r1 EXCEPT !.structs = insert(@, name, res)],
                                 Ok(Type_Struct(name))))
              ELSE Res(r, Ok(Type_Struct(name)))
        [] entity.kind = "EnumDecl" ->
              IF ~get(r.enums, name).some
              THEN Res([r EXCEPT !.enums = insert(@, name, resolve_enum(name, entity))],
                       Ok(Type_Enum(name)))
              ELSE Res(r, Ok(Type_Enum(name)))
        [] entity.kind = "UnionDecl" ->
              IF ~get(r.unions, name).some
              THEN AndThen(resolve_union(r, name, entity), LAMBDA r1, res :
                     Res([r1 EXCEPT !.unions = insert(@, name, res)],
                         Ok(Type_Union(name))))
              ELSE Res(r, Ok(Type_Union(name)))
        [] OTHER -> Res(r, Err(UnexpectedKind(entity.kind))))

\* TypeResolver::resolve_struct
resolve_struct(r, name, entity, size) ==
    AndThen(IF entity.base.some
            THEN AndThen(resolve_decl(r, EntityOf(entity.base.v)), LAMBDA r1, ty :
                   Res(r1, Ok(IF ty.k = "Struct" THEN Some(ty.id) ELSE None)))
            ELSE Res(r, Ok(None)),
            LAMBDA r1, base :
              struct_children(r1, entity.children, 1,
                              StructType(name, base, <<>>, <<>>, size)))

\* resolve_struct, lines 182-206: the loop over the children, from child k
struct_children(r, children, k, acc) ==
    IF k > Len(children) THEN Res(r, Ok(acc))
    ELSE Bind(children[k], LAMBDA child :
      CASE child.kind = "FieldDecl" ->
              AndThen(resolve_type(r, child.typ), LAMBDA r1, typ :
                struct_children(r1, children, k + 1,
                  [acc EXCEPT !.members =
                     Append(@, DataMember(child.name, typ, child.offset,
                                          child.is_bit_field))]))
        [] child.kind \in {"Method", "Destructor"} /\ child.is_virtual ->
              AndThen(resolve_type(r, child.typ), LAMBDA r1, typ :
                struct_children(r1, children, k + 1,
                  IF typ.k = "Function"
                  THEN [acc EXCEPT !.virtual_methods = Append(@, Method(child.name, typ.fun))]
                  ELSE acc))
        [] OTHER -> struct_children(r, children, k + 1, acc))

\* TypeResolver::resolve_union
resolve_union(r, name, entity) ==
    AndThen(union_children(r, entity.children, <<>>), LAMBDA r1, members :
      Res(r1, Ok(UnionType(name, members, entity.size))))

\* resolve_union, lines 236-248: the loop over the children
union_children(r, children, members) ==
    IF children = <<>> THEN Res(r, Ok(members))
    ELSE IF Head(children).kind = "FieldDecl"
         THEN AndThen(resolve_type(r, Head(children).typ), LAMBDA r1, typ :
                union_children(r1, Tail(children),
                  Append(members, DataMember(Head(children).name, typ,
                                             Head(children).offset, FALSE))))
         ELSE union_children(r, Tail(children), members)

\* TypeResolver::resolve_function
resolve_function(r, typ) ==
    AndThen(resolve_type(r, typ.result), LAMBDA r1, return_type :
      AndThen(function_params(r1, typ.params, <<>>), LAMBDA r2, params :
        Res(r2, Ok(FunctionType(params, return_type)))))

\* resolve_function, lines 258-260: the loop over the argument types
function_params(r, types, params) ==
    IF types = <<>> THEN Res(r, Ok(params))
    ELSE AndThen(resolve_type(r, Head(types)), LAMBDA r1, typ :
           function_params(r1, Tail(types), Append(params, typ)))

(***************************************************************************)
(* clang/src/main.rs, run: the declarations of the translation unit are    *)
(* resolved while it is visited (eager type export), an error dropped by   *)
(* .ok(); then the types of the typedefs are resolved, an error returned.  *)
(***************************************************************************)
\* the struct, class, union and enum declarations the visit comes by
VisitedDecls == {NameA, NameN, NameF, NameG, NameH, NameW, IdE}

\* the types of the typedefs
TypedefTypes ==
    {ClangFunction(ClangInt, <<ClangBInt>>),
     ClangFunction(ClangPrim("Void"), <<ClangPointer("Pointer", ClangRecord(NameN, None))>>),
     ClangTypedef(ClangCInt),
     ClangPointer("LValueReference", ClangRecord(NameH, None)),
     ClangArray(ClangUnexposed(NameT), 2),
     ClangEnum(IdE)}

InitClang ==
    /\ overflow_checks = FALSE
    /\ cfg_windows = FALSE
    /\ resolver = TypeResolver_new
    /\ writer = None
    /\ exe = Exe(0, 0)
    /\ pc = "ready"
    /\ specs = <<>>
    /\ text = <<>>
    /\ items = <<>>
    /\ hits = <<>>
    /\ matches = <<>>
    /\ match_map = <<>>
    /\ syms = <<>>
    /\ errs = <<>>
    /\ result = None
    /\ low_pcs = <<>>
    /\ call = None
    /\ ret = None

\* run, line 72: resolver.resolve_decl(ent).ok()
ResolveDecl ==
    /\ pc = "ready"
    /\ Len(resolver.local_types) <= MaxLayers
    /\ \E name \in VisitedDecls :
         \E x \in {resolve_decl(resolver, EntityOf(name))} :
            /\ resolver' = x.r
            /\ call' = [fn |-> "resolve_decl", decl |-> name]
            /\ ret' = Some(x.res)
    /\ UNCHANGED <<overflow_checks, specs, text, exe, pc, items, hits, matches,
                   match_map, syms, errs, result, low_pcs, writer, cfg_windows>>

\* run, line 82: resolver.resolve_type(ent.get_type().unwrap())?
ResolveType ==
    /\ pc \in {"ready", "typedefs"}
    /\ Len(resolver.local_types) <= MaxLayers
    /\ \E typ \in TypedefTypes :
         \E x \in {resolve_type(resolver, typ)} :
            /\ resolver' = x.r
            /\ call' = [fn |-> "resolve_type", typ |-> typ]
            /\ ret' = Some(x.res)
            /\ pc' = IF x.res.ok THEN "typedefs" ELSE "run_failed"
    /\ UNCHANGED <<overflow_checks, specs, text, exe, items, hits, matches,
                   match_map, syms, errs, result, low_pcs, writer, cfg_windows>>

NextClang ==
    \/ ResolveDecl
    \/ ResolveType

SpecClang == InitClang /\ [][NextClang]_vars

(***************************************************************************)
(* Properties of multi_search (checked under Spec).                        *)
(***************************************************************************)
\* byte offset of item j (1-based) of a pattern
ItemOffset(parts, j) == SumSeq([m \in 1..(j - 1) |-> PatItem_size(parts[m])])

\* parts occurs in h at offset k: the window h[k .. k+size) lies inside h and
\* every Byte item equals the byte of h at its position
OccursIn(parts, h, k) ==
    /\ k + Pattern_size(parts) <= Len(h)
    /\ \A j \in 1..Len(parts) :
         parts[j].t = "Byte" => h[k + ItemOffset(parts, j) + 1] = parts[j].b

Match(p, k) == [pattern |-> p, rva |-> k]

Returned(m) == \E j \in 1..Len(matches) : matches[j] = m

NoByte(parts) == \A j \in 1..Len(parts) : parts[j].t # "Byte"

\* the window of a hit of the automaton leaves the haystack
OutOfWindow(mat) ==
    LET offset == items[mat.pattern + 1].offset
        size == Pattern_size(specs[mat.pattern + 1].pattern)
    IN \/ mat.start < offset
       \/ mat.start - offset + size > Len(text)

\* C1: completeness of multi_search. For a single pattern and a haystack that holds
\* an occurrence of it (window inside the haystack, Byte items equal), the call
\* returns normally and the result contains Match{pattern: 0, rva: k} for every
\* such offset k. Stated for the patterns that hold a Byte item.
C1_Completeness ==
    (/\ Len(specs) = 1
     /\ ~NoByte(specs[1].pattern)
     /\ \E k \in 0..Len(text) : OccursIn(specs[1].pattern, text, k))
    => /\ pc # "search_panic"
       /\ pc = "done" =>
            \A k \in 0..Len(text) :
               OccursIn(specs[1].pattern, text, k) => Returned(Match(0, k))

\* C2: soundness of multi_search. Every match pushed is a true occurrence of its
\* pattern (window inside the haystack, Byte items equal), no (pattern, rva) pair
\* is pushed twice, and when the call returns the result holds every true
\* occurrence of every pattern: it is exactly the set of true occurrences.
C2_Soundness ==
    /\ \A j \in 1..Len(matches) :
         /\ matches[j].pattern \in 0..(Len(specs) - 1)
         /\ OccursIn(specs[matches[j].pattern + 1].pattern, text, matches[j].rva)
    /\ \A j, k \in 1..Len(matches) : matches[j] = matches[k] => j = k
    /\ pc = "done" =>
         \A p \in 1..Len(specs) : \A k \in 0..Len(text) :
            OccursIn(specs[p].pattern, text, k) => Returned(Match(p - 1, k))

\* a search returned a match and dropped a hit of a run whose window lies inside
\* the haystack and holds no occurrence of the pattern
C2_Witness ==
    /\ pc = "done"
    /\ matches # <<>>
    /\ \A p \in 1..Len(specs) : ~NoByte(specs[p].pattern)
    /\ \E p \in 1..Len(specs) : \E k \in 0..Len(text) :
         /\ k + Pattern_size(specs[p].pattern) <= Len(text)
         /\ OccursAt(items[p].sequence, text, k + items[p].offset)
         /\ ~OccursIn(specs[p].pattern, text, k)

\* C3: a hit of a literal run whose pattern window does not lie inside the
\* haystack is discarded: the search never aborts at such a hit. Stated for the
\* hits of a run that is not empty.
C3_OutOfWindowDiscarded ==
    ~(/\ pc = "search_panic"
      /\ hits # <<>>
      /\ items[Head(hits).pattern + 1].sequence # <<>>
      /\ OutOfWindow(Head(hits)))

\* C4: for a single pattern without a Byte item and a haystack at least as long as
\* the pattern, the search does not fail and returns exactly one match at every
\* offset 0 .. |h| - size. Stated for the patterns of Any and Group items that are
\* not empty.
C4_NoBytePatternScans ==
    (/\ Len(specs) = 1
     /\ specs[1].pattern # <<>>
     /\ NoByte(specs[1].pattern)
     /\ Len(text) >= Pattern_size(specs[1].pattern))
    => /\ pc # "search_panic"
       /\ pc = "done" =>
            /\ Len(matches) = Len(text) - Pattern_size(specs[1].pattern) + 1
            /\ \A k \in 0..(Len(text) - Pattern_size(specs[1].pattern)) :
                  Returned(Match(0, k))

(***************************************************************************)
(* Properties of resolve_in_exe (checked under SpecResolve).               *)
(***************************************************************************)
\* the number of matches resolve_in_exe found for spec k
Count(k) == Len(match_map[k])

\* the number of offsets of the .text at which the pattern of spec k occurs
TrueCount(k) == Cardinality({o \in 0..Len(text) : OccursIn(specs[k].pattern, text, o)})

SymbolsOf(k) == SelectSeq(syms, LAMBDA y : y.name = specs[k].name)

ErrorsOf(k) == SelectSeq(errs, LAMBDA e : e.name = specs[k].name)

\* spec k reached address resolution: its match count selects one match
Reaches(k) ==
    \/ Count(k) = 1
    \/ /\ Count(k) >= 2
       /\ specs[k].nth_entry_of.some
       /\ specs[k].nth_entry_of.v[1] < Count(k)
       /\ specs[k].nth_entry_of.v[2] = Count(k)

GroupNames(parts) == {parts[j].name : j \in {j \in 1..Len(parts) : parts[j].t = "Group"}}

RECURSIVE Idents(_)
Idents(e) ==
    CASE e.op = "Ident" -> {e.name}
      [] e.op = "Int" -> {}
      [] e.op = "Deref" -> Idents(e.e)
      [] OTHER -> Idents(e.l) \cup Idents(e.r)

RECURSIVE HasDeref(_)
HasDeref(e) ==
    CASE e.op \in {"Ident", "Int"} -> FALSE
      [] e.op = "Deref" -> TRUE
      [] OTHER -> HasDeref(e.l) \/ HasDeref(e.r)

\* the eval of spec k names an identifier that is no capture group of its pattern
Unbound(k) ==
    /\ specs[k].eval.some
    /\ ~(Idents(specs[k].eval.v) \subseteq GroupNames(specs[k].pattern))

\* the evaluator can fail for spec k
MayFail(k) == specs[k].eval.some /\ (Unbound(k) \/ HasDeref(specs[k].eval.v))

\* the signed value of the I32_BYTES little-endian bytes of h at offset at
SignedAt(h, at) ==
    LET u == SumSeq([j \in 1..I32_BYTES |-> h[at + j] * ByteMod ^ (j - 1)])
    IN IF u >= I32Mod \div 2 THEN u - I32Mod ELSE u

\* C5: a spec with nth = (n, total) resolves to a symbol only when its match count
\* equals total; for every other count, a count of 1 included, resolve_in_exe
\* reports CountMismatch for the spec and emits no symbol for it. Stated for the
\* specs with at least one match.
C5_NthRequiresTotal ==
    (pc = "returned" /\ result.v.ok) =>
       \A k \in 1..Len(specs) :
          (/\ specs[k].nth_entry_of.some
           /\ Count(k) >= 1
           /\ Count(k) # specs[k].nth_entry_of.v[2]) =>
             /\ SymbolsOf(k) = <<>>
             /\ ErrorsOf(k) = <<CountMismatch(specs[k].name, Count(k))>>

\* C6: resolve_in_exe classifies each spec by the number of occurrences of its own
\* pattern: exactly one yields a symbol (and no error), two or more without nth
\* yield MoreThanOneMatch(name, count) with the exact count, none yields
\* NoMatches(name); without any eval the call that returns returns Ok.
C6_ClassifiedByCount ==
    pc = "returned" =>
       /\ (\A k \in 1..Len(specs) : ~specs[k].eval.some) => result.v.ok
       /\ result.v.ok =>
            \A k \in 1..Len(specs) :
               /\ Count(k) = TrueCount(k)
               /\ TrueCount(k) = 1 =>
                    /\ Len(SymbolsOf(k)) = 1
                    /\ ErrorsOf(k) = <<>>
               /\ (TrueCount(k) >= 2 /\ ~specs[k].nth_entry_of.some) =>
                    /\ SymbolsOf(k) = <<>>
                    /\ ErrorsOf(k) = <<MoreThanOneMatch(specs[k].name, TrueCount(k))>>
               /\ TrueCount(k) = 0 =>
                    /\ SymbolsOf(k) = <<>>
                    /\ ErrorsOf(k) = <<NoMatches(specs[k].name)>>

\* two specs, one with a single match and a symbol, one with several matches and
\* MoreThanOneMatch
C6_Witness ==
    /\ pc = "returned"
    /\ result.v.ok
    /\ Len(specs) = 2
    /\ \A k \in 1..2 : ~NoByte(specs[k].pattern)
    /\ \E k \in 1..2 : TrueCount(k) = 1 /\ Len(SymbolsOf(k)) = 1
    /\ \E k \in 1..2 : TrueCount(k) >= 2 /\ ErrorsOf(k) # <<>>
                       /\ ErrorsOf(k)[1].kind = "MoreThanOneMatch"

\* what resolve_in_exe returns for spec k alone on the same executable
Alone(k) == resolve_in_exe(overflow_checks, <<specs[k]>>, ExecutableData, TRUE)

\* C7: when resolve_in_exe returns Ok((symbols, errors)), every spec has exactly one
\* entry in exactly one of the two lists, both lists keep the input order of the
\* specs, and the entry of a spec is the one the spec gets when it is resolved
\* alone on the same executable.
C7_PerSpecOutcome ==
    (pc = "returned" /\ result.v.ok) =>
       /\ Len(syms) + Len(errs) = Len(specs)
       /\ \A k \in 1..Len(specs) : Len(SymbolsOf(k)) + Len(ErrorsOf(k)) = 1
       /\ \A j, k \in 1..Len(syms) : j < k => syms[j].name < syms[k].name
       /\ \A j, k \in 1..Len(errs) : j < k => errs[j].name < errs[k].name
       /\ \A k \in 1..Len(specs) :
            Alone(k) = Val(Ok([syms |-> SymbolsOf(k), errs |-> ErrorsOf(k)]))

\* two specs: the first fails to match, the second still gets its symbol
C7_Witness ==
    /\ pc = "returned"
    /\ result.v.ok
    /\ Len(specs) = 2
    /\ \A k \in 1..2 : ~NoByte(specs[k].pattern)
    /\ Len(ErrorsOf(1)) = 1
    /\ Len(SymbolsOf(2)) = 1

\* C8: a failure of the evaluator for a spec that reached address resolution
\* (UnresolvedName for an identifier that is no capture group of the pattern,
\* InvalidAccess from a dereference) is the whole result of resolve_in_exe, with no
\* symbols and no collected errors; an error is returned only for such a spec, and
\* a call in which no spec can fail in the evaluator returns Ok.
C8_EvalFailureAborts ==
    pc = "returned" =>
       LET reach == {k \in 1..Len(specs) : Reaches(k)}
           risky == {k \in reach : MayFail(k)}
           unbound == {k \in reach : Unbound(k)}
       IN /\ ~result.v.ok =>
               /\ syms = <<>>
               /\ errs = <<>>
               /\ \E k \in risky :
                    \/ /\ result.v.e.kind = "UnresolvedName"
                       /\ result.v.e.name \in
                            Idents(specs[k].eval.v) \ GroupNames(specs[k].pattern)
                    \/ /\ result.v.e.kind = "InvalidAccess"
                       /\ HasDeref(specs[k].eval.v)
          /\ \A k \in unbound :
               (\A j \in risky : j >= k) =>
                  /\ ~result.v.ok
                  /\ result.v.e.kind = "UnresolvedName"
                  /\ result.v.e.name \in
                       Idents(specs[k].eval.v) \ GroupNames(specs[k].pattern)
          /\ risky = {} => result.v.ok

\* two specs: the first fails to match, the second names an unbound identifier and
\* the call returns UnresolvedName
C8_Witness ==
    /\ pc = "returned"
    /\ Len(specs) = 2
    /\ \A k \in 1..2 : ~NoByte(specs[k].pattern)
    /\ ~Reaches(1)
    /\ Reaches(2)
    /\ Unbound(2)
    /\ ~result.v.ok
    /\ result.v.e.kind = "UnresolvedName"

(***************************************************************************)
(* Properties of the resolved address (checked under SpecAddr).            *)
(***************************************************************************)
\* C9: for a spec without eval and with a single match, the address written to
\* DW_AT_low_pc is text_base + match_rva - offset modulo 2^64 (offset 0 when
\* absent), and neither resolve_in_exe nor write_symbol_file fails, also when the
\* offset is larger than the match rva or negative.
C9_OffsetAddress ==
    (/\ pc \notin {"ready", "search_panic"}
     /\ ~specs[1].eval.some
     /\ Count(1) = 1)
    => /\ pc \notin {"resolve_panic", "write_panic"}
       /\ pc = "written" =>
            low_pcs = <<AsU64(exe.text_offset + match_map[1][1]
                              - unwrap_or(specs[1].offset, 0))>>

\* C10: for a spec whose eval is the name of the capture group at byte offset o of
\* its pattern and whose single match is at rva r, the resolved address is
\* text_base + (r + o) + 4 + d modulo 2^64, d the signed little-endian value of the
\* four bytes of .text at r + o; the symbol holds it relative to the image base.
C10_EvalGroupAddress ==
    \A j \in 1..Len(specs[1].pattern) :
       (/\ pc \in {"returned", "written"}
        /\ specs[1].pattern[j].t = "Group"
        /\ specs[1].eval = Some(Expr_Ident(specs[1].pattern[j].name))
        /\ Count(1) = 1)
       => LET r == match_map[1][1]
              o == ItemOffset(specs[1].pattern, j)
              address == AsU64(exe.text_offset + (r + o) + I32_BYTES
                               + SignedAt(text, r + o))
          IN /\ result.v.ok
             /\ syms = <<FunctionSymbol(specs[1].name, AsU64(address - exe.image_base))>>
             /\ pc = "written" => low_pcs = <<address>>

\* a group behind two bytes, matched at rva 1, with a negative displacement
C10_Witness ==
    /\ pc = "written"
    /\ Count(1) = 1
    /\ match_map[1][1] >= 1
    /\ \E j \in 2..Len(specs[1].pattern) :
         /\ specs[1].pattern[j].t = "Group"
         /\ specs[1].eval = Some(Expr_Ident(specs[1].pattern[j].name))
         /\ SignedAt(text, match_map[1][1] + ItemOffset(specs[1].pattern, j)) < 0

(***************************************************************************)
(* Properties of single functions (checked under SpecCall).                *)
(***************************************************************************)
\* C11: resolve_rel_rdata(addr) returns InvalidAccess carrying the offset whenever
\* the eight bytes to read are not entirely inside .rdata (addr below rdata_base,
\* or addr - rdata_base + 8 > |rdata|); it neither aborts nor returns a value.
\* Stated for resolve_rel_rdata; the offset is compared when addr >= rdata_base.
C11_OutOfRangeInvalidAccess ==
    (/\ pc # "ready"
     /\ call.fn = "resolve_rel_rdata"
     /\ \/ call.addr < call.data.rdata_offset
        \/ call.addr - call.data.rdata_offset + U64_BYTES > Len(call.data.rdata))
    => /\ pc = "called"
       /\ ~ret.v.ok
       /\ ret.v.e.kind = "InvalidAccess"
       /\ call.addr >= call.data.rdata_offset =>
            ret.v.e.addr = call.addr - call.data.rdata_offset

\* C12: prefix `*` binds tighter than `+` and `-`: `*a + 1` parses to
\* Add(Deref(a), Int(1)), and likewise for `-`, without or with blanks around
\* the operator.
C12_DerefBindsTighter ==
    (/\ pc = "called"
     /\ call.fn = "Expr::parse"
     /\ \E op \in {"+", "-"} :
          call.str \in {<<"*", "a", op, "1">>, <<"*", "a", " ", op, "1">>})
    => /\ ret.v.ok
       /\ ret.v.v.op \in {"Add", "Sub"}
       /\ ret.v.v.l = Expr_Deref(Expr_Ident(<<"a">>))
       /\ ret.v.v.r = Expr_Int(1)

\* C13: Expr::eval of Add and Sub is u64 wrapping arithmetic: for all values a, b
\* of the operands the result is (a + b) mod 2^64, resp. (a - b) mod 2^64, and the
\* evaluation never fails on overflow or underflow.  Stated for operands that
\* are bound variables.
C13_WrappingAddSub ==
    (/\ pc # "ready"
     /\ call.fn = "Expr::eval"
     /\ call.expr.l.op = "Ident"
     /\ call.expr.r.op = "Ident")
    => /\ pc = "called"
       /\ ret.v = Ok((IF call.expr.op = "Add"
                      THEN get_var(call.ctx, call.expr.l.name).v
                             + get_var(call.ctx, call.expr.r.name).v
                      ELSE get_var(call.ctx, call.expr.l.name).v
                             - get_var(call.ctx, call.expr.r.name).v + WordMod)
                     % WordMod)

\* the string with its hex letters in upper case
ToUpperHex(str) ==
    [k \in 1..Len(str) |->
       IF str[k] \in LowerHex
       THEN HexChars[10 + CHOOSE j \in 1..6 : <<"a", "b", "c", "d", "e", "f">>[j] = str[k]]
       ELSE str[k]]

\* C14: Pattern::parse yields the same items whatever the case of the hex
\* letters: a string parses to what its upper-case form parses to ('8bf9e8??'
\* like '8BF9E8??').  Stated for strings without blanks.
C14_HexCaseInsensitive ==
    (/\ pc = "called"
     /\ call.fn = "Pattern::parse"
     /\ \A k \in 1..Len(call.str) : call.str[k] \notin Blanks)
    => ret.v = Pattern_parse(ToUpperHex(call.str))

\* C15: does_match(bytes) is true exactly when bytes is at least size() long and
\* every Byte item equals the byte at its cumulative offset; it is false for
\* every slice shorter than size().
C15_DoesMatchExact ==
    (pc = "called" /\ call.fn = "does_match")
    => (ret.v <=> OccursIn(call.parts, call.bytes, 0))

\* the n >= 1 items of parts after the first a are a run of Byte items that no
\* Byte item precedes or follows
ByteRun(parts, a, n) ==
    /\ n >= 1
    /\ a + n <= Len(parts)
    /\ \A j \in (a + 1)..(a + n) : parts[j].t = "Byte"
    /\ a > 0 => parts[a].t # "Byte"
    /\ a + n < Len(parts) => parts[a + n + 1].t # "Byte"

\* C16: for a pattern with a Byte item, longest_byte_sequence returns a run of
\* Byte items only, of maximal length, and the first such run on ties.
C16_FirstLongestByteRun ==
    (pc = "called" /\ call.fn = "longest_byte_sequence" /\ ~NoByte(call.parts))
    => /\ ByteRun(call.parts, ret.v.start, ret.v.len)
       /\ \A a \in 0..Len(call.parts), n \in 1..Len(call.parts) :
            ByteRun(call.parts, a, n) =>
               \/ n < ret.v.len
               \/ n = ret.v.len /\ a >= ret.v.start

\* the sizes of the first n items added up: one byte each, a rel group four
SizeBefore(parts, n) ==
    n + 3 * Cardinality({j \in 1..n : parts[j].t = "Group"})

\* the position in parts of its k-th Group item
GroupAt(parts, k) ==
    CHOOSE j \in 1..Len(parts) :
       /\ parts[j].t = "Group"
       /\ Cardinality({m \in 1..(j - 1) : parts[m].t = "Group"}) = k - 1

\* C17: Pattern::groups yields (name, type, byte offset) of every Group item in
\* the order of declaration, the offset being the sum of the sizes of the items
\* before it (Byte and Any 1, a rel group 4); Pattern::size is the sum of the
\* sizes of all items.
C17_GroupsAndSize ==
    /\ (pc = "called" /\ call.fn = "groups")
       => /\ Len(ret.v) = Cardinality({j \in 1..Len(call.parts) : call.parts[j].t = "Group"})
          /\ \A k \in 1..Len(ret.v) :
               ret.v[k] = [name |-> call.parts[GroupAt(call.parts, k)].name,
                           typ |-> "Rel",
                           offset |-> SizeBefore(call.parts, GroupAt(call.parts, k) - 1)]
    /\ (pc = "called" /\ call.fn = "size")
       => ret.v = SizeBefore(call.parts, Len(call.parts))

\* MaxPatLen groups were listed, the last one after groups only
C17_Witness ==
    /\ pc = "called"
    /\ call.fn = "groups"
    /\ Len(ret.v) = MaxPatLen
    /\ ret.v[1].name # ret.v[2].name
    /\ ret.v[MaxPatLen].offset = (MaxPatLen - 1) * I32_BYTES

\* the keys the comment lines set
KeysOf(comments) == {comments[k].key : k \in 1..Len(comments)} \ {"none"}

\* every parameter is set by one line, with a well-formed value
WellFormed(comments) ==
    \A k \in 1..Len(comments) :
       comments[k].key # "none" =>
          /\ comments[k].val.some
          /\ \A j \in 1..Len(comments) : comments[j].key = comments[k].key => j = k

\* the value the lines give to key, None without such a line
ValueOf(comments, key) ==
    IF key \in KeysOf(comments)
    THEN comments[CHOOSE k \in 1..Len(comments) : comments[k].key = key].val
    ELSE None

C20_NameInjective ==
    (pc = "called" /\ call.fn = "Type::name")
    => \A other \in NameTypes : other # call.typ => Type_name(other) # ret.v

(***************************************************************************)
(* Properties of the writer (checked under SpecDwarf).                     *)
(***************************************************************************)
\* the DIEs of the unit that are children of the root and have the tag
TopDies(tag) ==
    {id \in 1..Len(writer.unit) : writer.unit[id].parent = 0 /\ writer.unit[id].tag = tag}

\* C19: the unit holds at most one type DIE for a type name.  Stated for the
\* pointer types: no two pointer DIEs under the root point to one DIE (both would
\* be the DIE of the pointer to the type of that DIE), and no two structure DIEs
\* under the root have one name.
C19_OneDiePerName ==
    /\ \A p, q \in TopDies("DW_TAG_pointer_type") :
         writer.unit[p].attrs.DW_AT_type = writer.unit[q].attrs.DW_AT_type => p = q
    /\ \A p, q \in TopDies("DW_TAG_structure_type") :
         writer.unit[p].attrs.DW_AT_name = writer.unit[q].attrs.DW_AT_name => p = q

\* the last call of the writer was get_type and it returned
GotType == pc = "ready" /\ call # None /\ call.fn = "get_type"

\* the attribute of the DIE that the last call returned
RetAttr(attr) == writer.unit[ret.v].attrs[attr]

\* C21: for every type t for which Type::size returns a value (a function type
\* among them), the DIE that get_type returns for t carries DW_AT_byte_size equal
\* to size(t).
C21_ByteSizeIsSize ==
    GotType =>
      Bind(Type_size(Build(overflow_checks, cfg_windows), writer.types, call.typ),
           LAMBDA size :
             (~size.panic /\ size.v.some)
             => /\ RetAttr("DW_AT_byte_size").some
                /\ RetAttr("DW_AT_byte_size").v.v = size.v.v)

\* Type::size of a type of the writer's TypeInfo, in the build checked
SizeOf(typ) == Type_size(Build(overflow_checks, cfg_windows), writer.types, typ)

\* the member DIEs of the aggregate DIE id, in the order they were added
MemberDies(id) ==
    SelectSeq([j \in 1..Len(writer.unit) |-> j],
              LAMBDA j : writer.unit[j].parent = id /\ writer.unit[j].tag = "DW_TAG_member")

\* the struct of the writer's TypeInfo that the last call asked for
AskedStruct == get(writer.types.structs, call.typ.id).v

\* the member has no explicit bit_offset and a known size above 0
Sized(member) ==
    /\ ~member.bit_offset.some
    /\ ~SizeOf(member.typ).panic
    /\ SizeOf(member.typ).v.some
    /\ SizeOf(member.typ).v.v > 0

\* o rounded up to the next multiple of a
AlignUp(o, a) == ((o + a - 1) \div a) * a

\* the locations of sized members from the running offset o: each the running
\* offset rounded up to min(size, MAX_ALIGN), the next running offset that plus size
RECURSIVE AlignedLocations(_, _)
AlignedLocations(members, o) ==
    IF members = <<>> THEN <<>>
    ELSE LET size == SizeOf(Head(members).typ).v.v
             at == AlignUp(o, min(size, MAX_ALIGN))
         IN <<at>> \o AlignedLocations(Tail(members), at + size)

\* the sized members at the head of a member list
RECURSIVE SizedPrefix(_)
SizedPrefix(members) ==
    IF members = <<>> \/ ~Sized(Head(members)) THEN <<>>
    ELSE <<Head(members)>> \o SizedPrefix(Tail(members))

\* C22: in the DIE of a struct, every member without bit_offset and with a known
\* size s > 0 is located at the running offset rounded up to the next multiple of
\* min(s, 8), and the running offset goes on from that location plus s (a 1-byte
\* member at 0, then a 4-byte member at 4, then the next member from 8).  Stated
\* for the sized members at the head of all_members, from offset 0, or from
\* POINTER_SIZE behind a vft member.
C22_MembersAligned ==
    (GotType /\ call.typ.k = "Struct")
    => LET vft == has_virtual_methods(AskedStruct, writer.types)
           sized == SizedPrefix(all_members(AskedStruct, writer.types))
           expected == AlignedLocations(sized, IF vft THEN POINTER_SIZE ELSE 0)
           dies == MemberDies(ret.v)
       IN \A j \in 1..Len(sized) :
             writer.unit[dies[j + (IF vft THEN 1 ELSE 0)]].attrs.DW_AT_data_member_location
               = Some(Data8(expected[j]))

\* the size of the type of the member is known (0 included)
SizeKnown(member) == ~SizeOf(member.typ).panic /\ SizeOf(member.typ).v.some

\* C29: define_struct completes without failure for a struct whose member types
\* all have a known size, a known size of 0 included: get_type of such a struct
\* never aborts.
C29_ZeroSizeMemberCompletes ==
    ~(/\ pc = "write_panic"
      /\ call.fn = "get_type"
      /\ call.typ.k = "Struct"
      /\ \A j \in 1..Len(all_members(AskedStruct, writer.types)) :
            SizeKnown(all_members(AskedStruct, writer.types)[j]))

\* the structs from the root of the base chain down to the struct
RECURSIVE BaseChain(_)
BaseChain(struct_) ==
    IF base_of(struct_, writer.types).some
    THEN Append(BaseChain(base_of(struct_, writer.types).v), struct_)
    ELSE <<struct_>>

\* the virtual methods of the structs of a chain, in the order of the chain
RECURSIVE SlotsOf(_)
SlotsOf(chain) ==
    IF chain = <<>> THEN <<>> ELSE Head(chain).virtual_methods \o SlotsOf(Tail(chain))

\* the DIE that the DW_AT_type of DIE id refers to
TypeOf(id) == writer.unit[id].attrs.DW_AT_type.v.v

\* DIE id is the table of the slots of struct_: a structure named <Name>_vft of 8
\* bytes a slot, its i-th member at 8 * i (from 0) with the name of the i-th slot,
\* a pointer to a subroutine type
IsVtable(id, struct_, slots) ==
    /\ writer.unit[id].tag = "DW_TAG_structure_type"
    /\ writer.unit[id].attrs.DW_AT_name = Some(String(struct_.name \o <<"_", "v", "f", "t">>))
    /\ writer.unit[id].attrs.DW_AT_byte_size = Some(Data8(8 * Len(slots)))
    /\ Len(MemberDies(id)) = Len(slots)
    /\ \A j \in 1..Len(slots) :
          LET member == writer.unit[MemberDies(id)[j]]
          IN /\ member.attrs.DW_AT_name = Some(String(slots[j].name))
             /\ member.attrs.DW_AT_data_member_location = Some(Data8(8 * (j - 1)))
             /\ writer.unit[TypeOf(MemberDies(id)[j])].tag = "DW_TAG_pointer_type"
             /\ writer.unit[TypeOf(TypeOf(MemberDies(id)[j]))].tag = "DW_TAG_subroutine_type"

\* C23: the DIE of a struct with a virtual method of its own or of its base chain
\* has, before all data members, a member vft at location 0 that points to a
\* structure <Name>_vft of 8 bytes a slot whose i-th member, at 8 * i, is the
\* i-th virtual method, those of the base first; the DIE of a struct without a
\* virtual method in its chain has the data members only.
C23_VtableMember ==
    (GotType /\ call.typ.k = "Struct")
    => LET slots == SlotsOf(BaseChain(AskedStruct))
           dies == MemberDies(ret.v)
           data == all_members(AskedStruct, writer.types)
       IN IF slots # <<>>
          THEN /\ Len(dies) = 1 + Len(data)
               /\ writer.unit[dies[1]].attrs.DW_AT_name = Some(String(<<"v", "f", "t">>))
               /\ writer.unit[dies[1]].attrs.DW_AT_data_member_location = Some(Data8(0))
               /\ writer.unit[TypeOf(dies[1])].tag = "DW_TAG_pointer_type"
               /\ IsVtable(TypeOf(TypeOf(dies[1])), AskedStruct, slots)
               /\ \A j \in 1..Len(data) :
                     writer.unit[dies[1 + j]].attrs.DW_AT_name = Some(String(data[j].name))
          ELSE /\ Len(dies) = Len(data)
               /\ \A j \in 1..Len(data) :
                     /\ writer.unit[dies[j]].attrs.DW_AT_name = Some(String(data[j].name))
                     /\ ~writer.unit[dies[j]].attrs.DW_AT_artificial.some

\* the DIE of struct D : V returned: a slot of the base and a slot of its own
C23_Witness ==
    /\ GotType
    /\ call.typ = Type_Struct(IdD)
    /\ Len(SlotsOf(BaseChain(AskedStruct))) = 2
    /\ AskedStruct.virtual_methods # <<>>
    /\ base_of(AskedStruct, writer.types).v.virtual_methods # <<>>

\* C27: emission terminates for every TypeInfo whose ids resolve and whose base
\* chains are acyclic: every get_type call returns, with the id of a DIE of the
\* unit, after finitely many DIEs.
C27_EmissionReturns ==
    (call # None /\ call.fn = "get_type")
    => /\ pc = "ready"
       /\ ret.some
       /\ ret.v \in 1..Len(writer.unit)

(***************************************************************************)
(* More properties of resolve_in_exe (checked under SpecResolve).          *)
(***************************************************************************)
\* C25: for a spec with nth = (n, total) and two or more matches the count is
\* checked first: a count that differs from total is reported as CountMismatch
\* whatever n is, and NotEnoughMatches is reported only for a count equal to
\* total with n not an index of the matches.
C25_CountCheckedFirst ==
    (pc = "returned" /\ result.v.ok) =>
       \A k \in 1..Len(specs) :
          (specs[k].nth_entry_of.some /\ Count(k) >= 2) =>
             /\ Count(k) # specs[k].nth_entry_of.v[2]
                  => ErrorsOf(k) = <<CountMismatch(specs[k].name, Count(k))>>
             /\ (ErrorsOf(k) # <<>> /\ ErrorsOf(k)[1].kind = "NotEnoughMatches")
                  => /\ Count(k) = specs[k].nth_entry_of.v[2]
                     /\ specs[k].nth_entry_of.v[1] >= Count(k)

\* the rva that resolve_in_exe passes to resolve_symbol for a spec that Reaches
Selected(k) ==
    IF Count(k) = 1 THEN match_map[k][1]
    ELSE match_map[k][specs[k].nth_entry_of.v[1] + 1]

\* C28: every rva passed to address resolution is of a match whose whole window
\* lies inside .text, so EvalContext::new, which reads 4 bytes at rva + offset for
\* every group of the pattern, never fails with InvalidAccess.
C28_GroupsReadInsideText ==
    pc \in {"returned", "resolve_panic"} =>
       \A k \in 1..Len(specs) :
          Reaches(k) =>
             /\ Selected(k) + Pattern_size(specs[k].pattern) <= Len(text)
             /\ \A j \in 1..Len(specs[k].pattern) :
                   specs[k].pattern[j].t = "Group"
                   => Selected(k) + ItemOffset(specs[k].pattern, j) + I32_BYTES <= Len(text)
             /\ Bind(EvalContext_new(overflow_checks, specs[k].pattern, ExecutableData,
                                     Selected(k)),
                     LAMBDA ctx : ctx.panic \/ ctx.v.ok)
             /\ (pc = "returned" /\ ~result.v.ok /\ result.v.e.kind = "InvalidAccess")
                  => specs[k].eval.some /\ HasDeref(specs[k].eval.v)

\* a spec with an eval whose pattern ends with a group; the selected match ends at
\* the end of .text and the group was bound from its last four bytes
C28_Witness ==
    /\ pc = "returned"
    /\ result.v.ok
    /\ Len(specs) = 1
    /\ specs[1].eval.some
    /\ Reaches(1)
    /\ specs[1].pattern[Len(specs[1].pattern)].t = "Group"
    /\ Selected(1) + Pattern_size(specs[1].pattern) = Len(text)
    /\ Len(syms) = 1

\* the offsets of .text at which the pattern of spec k occurs
Occurrences(k) == {o \in 0..Len(text) : OccursIn(specs[k].pattern, text, o)}

\* the element of a set of numbers with n smaller elements
NthSmallest(S, n) == CHOOSE v \in S : Cardinality({w \in S : w < v}) = n

\* the spec has nth = (n, total), its pattern occurs total >= 2 times and n < total
NthApplies(k) ==
    /\ specs[k].nth_entry_of.some
    /\ TrueCount(k) >= 2
    /\ TrueCount(k) = specs[k].nth_entry_of.v[2]
    /\ specs[k].nth_entry_of.v[1] < TrueCount(k)

\* C26: a spec with nth = (n, total) whose pattern has exactly total >= 2 matches,
\* n < total, is resolved from the match with the (n+1)-th smallest rva, whatever
\* other specs are searched in the same pass.
C26_NthByIncreasingRva ==
    (pc = "returned" /\ result.v.ok) =>
       \A k \in 1..Len(specs) :
          NthApplies(k) =>
             /\ Selected(k) = NthSmallest(Occurrences(k), specs[k].nth_entry_of.v[1])
             /\ SymbolsOf(k) =
                  <<resolve_symbol(overflow_checks, specs[k], ExecutableData,
                                   NthSmallest(Occurrences(k),
                                               specs[k].nth_entry_of.v[1])).v.v>>

\* two specs in one pass, the second selects the second of its two matches, which
\* lie between and behind the matches of the first
C26_Witness ==
    /\ pc = "returned"
    /\ result.v.ok
    /\ Len(specs) = 2
    /\ NthApplies(2)
    /\ specs[2].nth_entry_of.v[1] >= 1
    /\ Count(1) >= 1
    /\ Len(SymbolsOf(2)) = 1
    /\ Selected(2) > 0

(***************************************************************************)
(* Properties of the TypeResolver (checked under SpecClang).               *)
(***************************************************************************)
\* C24: resolve_type keeps the scope of template parameters balanced: the layer
\* pushed for a type with template arguments is popped before the call returns,
\* with a type or with an error, so after any calls of resolve_type and
\* resolve_decl the scope has its initial depth and no template parameter of a
\* finished call is visible.
C24_ScopeBalanced ==
    resolver # None =>
        /\ Len(resolver.local_types) = Len(TypeResolver_new.local_types)
        /\ ~scope_get(resolver.local_types, NameT).some

\* C30: resolve_decl leaves the struct map unchanged when it fails: after a
\* resolve_decl of a struct that returned an error, the map has no entry (no
\* stub) for that struct.
C30_NoStubAfterFailure ==
    (resolver # None /\ call # None /\ call.fn = "resolve_decl" /\ ~ret.v.ok)
        => ~get(resolver.structs, call.decl).some

====
